---------------------------- MODULE Spec2Model ----------------------------
(***************************************************************************)
(* A model of pixi-batch-renderer: the batch generator (BatchGenerator),   *)
(* the geometry packer (GeometryPacker and its compiled packer function)   *)
(* and the flush cycle of BatchRenderer.                                   *)
(*                                                                         *)
(* JavaScript values are modelled as follows.  An object is a record whose *)
(* fields keep the names of the source.  A value that may be null is an    *)
(* option: Null (the empty sequence) or Some(v) (the one-element           *)
(* sequence).  A JavaScript array is a sequence; JavaScript indices are    *)
(* 0-based, so a[i] in the source is a[i + 1] here, and every index the    *)
(* program stores (a texture unit, an index-buffer entry) keeps its        *)
(* 0-based value.  An object used as a map (uid : value) is a function     *)
(* whose domain is the set of keys present.                                *)
(***************************************************************************)
EXTENDS Integers, Sequences, FiniteSets, TLC

VARIABLES
    gen,    \* the BatchGenerator
    call,   \* the last call made on a generator used on its own, and its result
    brend,  \* the BatchRenderer
    packer, \* the GeometryPacker
    run,    \* the last call made on the renderer, and what a flush did
    pool    \* a BufferPool

(***************************************************************************)
(* Bounds of the model.                                                    *)
(***************************************************************************)
\* Most display-objects rendered in one behaviour of the renderer.
MaxItems == 3
\* Most put calls in one behaviour of a generator used on its own.
MaxPuts == 3
\* Largest texture budget (textureLimit, MAX_TEXTURES) explored.
MaxTextureLimit == 2

Null == << >>
Some(v) == << v >>
Val(o) == o[1]

(***************************************************************************)
(* Textures.  A base texture has a uid and no baseTexture; a texture wraps *)
(* a base texture.  The generator identifies a texture by the uid of its   *)
(* base texture when it has one, else by its own uid.                      *)
(***************************************************************************)
BaseTextureOf(u) == [uid |-> u, baseTexture |-> Null]
TextureOf(u, b) == [uid |-> u, baseTexture |-> Some(BaseTextureOf(b))]

\* The textures display-objects draw from: three base textures and one
\* texture (uid 100) that wraps base texture 1.  Texture arrays draw from
\* three of them, of three different base textures.
Textures ==
    {BaseTextureOf(u) : u \in 1..3} \cup {TextureOf(100, 1)}

ArrayTextures ==
    {TextureOf(100, 1), BaseTextureOf(2), BaseTextureOf(3)}

\* texture.baseTexture ? texture.baseTexture : texture
Base(texture) ==
    IF texture.baseTexture # Null THEN Val(texture.baseTexture) ELSE texture

(***************************************************************************)
(* PIXI.State objects.  A state carries its flag bits in data, which is    *)
(* what put compares, and further settings, of which blendMode is one.     *)
(***************************************************************************)
StateOf(data, blendMode) == [data |-> data, blendMode |-> blendMode]

States == {StateOf(0, 0), StateOf(0, 1), StateOf(1, 0)}

(***************************************************************************)
(* BatchGenerator                                                          *)
(***************************************************************************)
\* The constructor.  onPut names the class's onPut method: "default" is
\* BatchGenerator.onPut, "override" a subclass that admits only
\* display-objects it finds batchable.
NewBatchGenerator(textureIncrement, textureLimit, enableTextureReduction, onPut) ==
    [ _state |-> Null,
      _textureIncrement |-> textureIncrement,
      _textureLimit |-> textureLimit,
      _batchBuffer |-> << >>,
      _textureBuffer |-> << >>,
      _textureBufferLength |-> 0,
      _textureIndexedBuffer |-> << >>,
      _textureIndexMap |-> << >>,
      enableTextureReduction |-> enableTextureReduction,
      onPut |-> onPut ]

OnPut(g, targetObject) ==
    IF g.onPut = "default" THEN TRUE ELSE targetObject.batchable

\* this._textureBuffer[uid] is truthy
InTextureBuffer(g, uid) == uid \in DOMAIN g._textureBuffer

\* A registration that takes the new length of the list for the unit.
RegisterTextureOffByOne(g, texture) ==
    [g EXCEPT !._textureBuffer = (texture.uid :> texture) @@ @,
              !._textureBufferLength = @ + 1,
              !._textureIndexedBuffer = Append(@, texture),
              !._textureIndexMap = (texture.uid :> Len(g._textureIndexedBuffer) + 1) @@ @]

\* The registration both reducing methods perform for a texture that is
\* not yet in the batch.
RegisterTexture(g, texture) ==
    LET newLength == Len(g._textureIndexedBuffer) + 1
        index == newLength - 1
    IN  [g EXCEPT !._textureBuffer = (texture.uid :> texture) @@ @,
                  !._textureBufferLength = @ + 1,
                  !._textureIndexedBuffer = Append(@, texture),
                  !._textureIndexMap = (texture.uid :> index) @@ @]

\* _putOnlyTexture with the budget test made strict.
PutOnlyTextureStrict(g, texture) ==
    LET baseTexture == Base(texture)
    IN  IF InTextureBuffer(g, baseTexture.uid)
        THEN [ret |-> TRUE, gen |-> g]
        ELSE IF g._textureBufferLength + 1 < g._textureLimit
        THEN [ret |-> TRUE, gen |-> RegisterTexture(g, baseTexture)]
        ELSE [ret |-> FALSE, gen |-> g]

\* _putOnlyTexture with the budget tested before the texture is looked up.
PutOnlyTextureBudgetFirst(g, texture) ==
    IF g._textureBufferLength + 1 > g._textureLimit
    THEN [ret |-> FALSE, gen |-> g]
    ELSE IF InTextureBuffer(g, Base(texture).uid)
    THEN [ret |-> TRUE, gen |-> g]
    ELSE [ret |-> TRUE, gen |-> RegisterTexture(g, Base(texture))]

PutOnlyTexture(g, texture) ==
    LET baseTexture == Base(texture)
    IN  IF InTextureBuffer(g, baseTexture.uid)
        THEN [ret |-> TRUE, gen |-> g]
        ELSE IF g._textureBufferLength + 1 <= g._textureLimit
        THEN [ret |-> TRUE, gen |-> RegisterTexture(g, baseTexture)]
        ELSE [ret |-> FALSE, gen |-> g]

\* First loop of _putTextureArray: one count per element whose texture is
\* not in the batch.
DeltaBufferLength(g, textureArray) ==
    Cardinality({i \in 1..Len(textureArray) :
                    ~InTextureBuffer(g, Base(textureArray[i]).uid)})

\* Second loop of _putTextureArray, from element i on.
RECURSIVE RegisterTextureArray(_, _, _)
RegisterTextureArray(g, textureArray, i) ==
    IF i > Len(textureArray) THEN g
    ELSE LET texture == Base(textureArray[i])
         IN  RegisterTextureArray(
                 IF ~InTextureBuffer(g, texture.uid)
                 THEN RegisterTexture(g, texture) ELSE g,
                 textureArray, i + 1)

\* _putTextureArray without its budget test.
PutTextureArrayUnchecked(g, textureArray) ==
    [ret |-> TRUE, gen |-> RegisterTextureArray(g, textureArray, 1)]

PutTextureArray(g, textureArray) ==
    IF DeltaBufferLength(g, textureArray) + g._textureBufferLength > g._textureLimit
    THEN [ret |-> FALSE, gen |-> g]
    ELSE [ret |-> TRUE, gen |-> RegisterTextureArray(g, textureArray, 1)]

PutTextureWithoutReduction(g, texture) ==
    IF g._textureBufferLength + 1 > g._textureLimit
    THEN [ret |-> FALSE, gen |-> g]
    ELSE [ret |-> TRUE,
          gen |-> [g EXCEPT !._textureIndexedBuffer = Append(@, Base(texture))]]

RECURSIVE BaseAll(_)
BaseAll(textureArray) ==
    IF textureArray = << >> THEN << >>
    ELSE << Base(Head(textureArray)) >> \o BaseAll(Tail(textureArray))

PutTextureArrayWithoutReduction(g, textureArray) ==
    IF g._textureBufferLength + Len(textureArray) > g._textureLimit
    THEN [ret |-> FALSE, gen |-> g]
    ELSE [ret |-> TRUE,
          gen |-> [g EXCEPT !._textureIndexedBuffer = @ \o BaseAll(textureArray)]]

\* this._putTexture, as the constructor selects it.  The texture property
\* of a display-object is held as a sequence: the one texture when
\* textureIncrement is 1, the texture array otherwise.
PutTexture(g, textureProperty) ==
    IF g.enableTextureReduction
    THEN IF g._textureIncrement = 1
         THEN PutOnlyTexture(g, textureProperty[1])
         ELSE PutTextureArray(g, textureProperty)
    ELSE IF g._textureIncrement = 1
         THEN PutTextureWithoutReduction(g, textureProperty[1])
         ELSE PutTextureArrayWithoutReduction(g, textureProperty)

\* put, after this._putTexture returned r (or was not called).
PutTextured(r, targetObject) ==
    IF ~r.ret
    THEN [ret |-> FALSE, gen |-> r.gen]
    ELSE [ret |-> TRUE, gen |-> [r.gen EXCEPT !._batchBuffer = Append(@, targetObject)]]

\* put, after the state is compared and recorded.
PutAdmitted(g, targetObject) ==
    IF ~OnPut(g, targetObject)
    THEN [ret |-> FALSE, gen |-> g]
    ELSE PutTextured(IF g._textureIncrement > 0
                     THEN PutTexture(g, targetObject.texture)
                     ELSE [ret |-> TRUE, gen |-> g],
                     targetObject)

\* put(targetObject, state): the value returned and the generator after it.
Put(g, targetObject, state) ==
    IF g._state # Null /\ Val(g._state).data # state.data
    THEN [ret |-> FALSE, gen |-> g]
    ELSE PutAdmitted(IF g._state = Null THEN [g EXCEPT !._state = Some(state)] ELSE g,
                     targetObject)

(***************************************************************************)
(* Batch                                                                   *)
(***************************************************************************)
\* new Batch(geometryOffset): batchBuffer, $vertexCount and $indexCount are
\* not set by the constructor (undefined, Null here).
NewBatchRecord(geometryOffset) ==
    [ geometryOffset |-> geometryOffset,
      batchBuffer |-> Null,
      textureBuffer |-> Null,
      uidMap |-> Null,
      state |-> Null,
      vertexCount |-> Null,
      indexCount |-> Null ]

BatchReset(batch) ==
    [batch EXCEPT !.textureBuffer = Null, !.uidMap = Null, !.state = Null]

\* A finalize that keeps the texture count of the batch it closed.
FinalizeKeepingCount(g, batch) ==
    [ batch |-> [batch EXCEPT
                    !.batchBuffer = Some(g._batchBuffer),
                    !.textureBuffer = Some(g._textureIndexedBuffer),
                    !.uidMap = IF g.enableTextureReduction
                               THEN Some(g._textureIndexMap) ELSE Null,
                    !.state = g._state],
      gen |-> [g EXCEPT !._state = Null,
                        !._batchBuffer = << >>,
                        !._textureBuffer = << >>,
                        !._textureIndexMap = << >>,
                        !._textureIndexedBuffer = << >>] ]

\* finalize(batch): the batch filled and the generator after it.
Finalize(g, batch) ==
    [ batch |-> [batch EXCEPT
                    !.batchBuffer = Some(g._batchBuffer),
                    !.textureBuffer = Some(g._textureIndexedBuffer),
                    !.uidMap = IF g.enableTextureReduction
                               THEN Some(g._textureIndexMap) ELSE Null,
                    !.state = g._state],
      gen |-> [g EXCEPT !._state = Null,
                        !._batchBuffer = << >>,
                        !._textureBuffer = << >>,
                        !._textureIndexMap = << >>,
                        !._textureBufferLength = 0,
                        !._textureIndexedBuffer = << >>] ]


(***************************************************************************)
(* Attribute redirects and ViewableBuffer.sizeOf.  size is Null for        *)
(* '%notarray%'.                                                           *)
(***************************************************************************)
AttributeRedirectOf(source, type, size) ==
    [ source |-> source, type |-> type, size |-> size,
      properSize |-> IF size = Null THEN 1 ELSE Val(size) ]

SizeOf(type) ==
    CASE type \in {"int8", "uint8"} -> 1
      [] type \in {"int16", "uint16"} -> 2
      [] OTHER -> 4

RECURSIVE VertexSizeFor(_)
VertexSizeFor(attributeRedirects) ==
    IF attributeRedirects = << >> THEN 0
    ELSE SizeOf(Head(attributeRedirects).type) * Head(attributeRedirects).properSize
         + VertexSizeFor(Tail(attributeRedirects))

\* utils.nextPow2 and utils.log2 (of a power of two)
RECURSIVE Pow2AtLeast(_, _)
Pow2AtLeast(p, v) == IF p >= v THEN p ELSE Pow2AtLeast(2 * p, v)
NextPow2(v) == Pow2AtLeast(1, v)

RECURSIVE Log2(_)
Log2(v) == IF v <= 1 THEN 0 ELSE 1 + Log2(v \div 2)

\* Math.ceil(a / b) for a >= 0, b > 0
CeilDiv(a, b) == (a + b - 1) \div b

(***************************************************************************)
(* Display-objects.  id is the position of the object in the order of      *)
(* submission; texture is the texture property (see PutTexture); state is  *)
(* what the state function returns for the object; batchable is what an    *)
(* overriding onPut reads; vertexCount is the number of vertices its       *)
(* attribute arrays hold (the array of a redirect holds vertexCount times  *)
(* the redirect's size elements) and indices is its index array.           *)
(***************************************************************************)
\* The texture properties of the objects put into a generator used on its
\* own: no texture, one texture, or an array of two of the textures that
\* make texture arrays, taken in one order.
TextureProperties(textureIncrement) ==
    CASE textureIncrement = 0 -> { << >> }
      [] textureIncrement = 1 -> { << t >> : t \in Textures }
      [] OTHER -> { tp \in { << t1, t2 >> : t1 \in ArrayTextures, t2 \in ArrayTextures } :
                        tp[1].uid <= tp[2].uid }

Triangle == [vertexCount |-> 3, indices |-> << 0, 1, 2 >>]
Quad == [vertexCount |-> 4, indices |-> << 0, 1, 2, 3, 0, 2 >>]
Empty == [vertexCount |-> 0, indices |-> << >>]

DisplayObjectOf(id, texture, state, batchable, geometry) ==
    [ id |-> id, texture |-> texture, state |-> state, batchable |-> batchable,
      vertexCount |-> geometry.vertexCount, indices |-> geometry.indices ]

\* The objects put into a generator used on its own.
DisplayObjects(id, textureIncrement, onPut) ==
    { DisplayObjectOf(id, tp, st, b, Triangle) :
        tp \in TextureProperties(textureIncrement),
        st \in States,
        b \in IF onPut = "default" THEN {TRUE} ELSE BOOLEAN }

\* The texture properties of the objects rendered: one of the three
\* textures that make texture arrays, or an array of two: one that repeats
\* a texture (two of them), one of two base textures and one of a base
\* texture and the wrapping texture.
RenderedTextureProperties(textureIncrement) ==
    CASE textureIncrement = 0 -> { << >> }
      [] textureIncrement = 1 -> { << t >> : t \in ArrayTextures }
      [] OTHER -> { << BaseTextureOf(2), BaseTextureOf(2) >>,
                    << BaseTextureOf(3), BaseTextureOf(3) >>,
                    << BaseTextureOf(2), BaseTextureOf(3) >>,
                    << BaseTextureOf(2), TextureOf(100, 1) >> }

\* The objects rendered: every texture property with one state and
\* geometry and, with one texture property, an object of another state
\* data, one of another geometry and, for an overriding onPut, one it
\* rejects.  A renderer that uses no textures is also given an object
\* whose state differs in blendMode only and one without vertices.
RenderedObjects(id, textureIncrement, onPut) ==
    LET tp0 == CHOOSE x \in RenderedTextureProperties(textureIncrement) : TRUE
    IN  { DisplayObjectOf(id, tp, StateOf(0, 0), TRUE, Triangle) :
            tp \in RenderedTextureProperties(textureIncrement) }
        \cup { DisplayObjectOf(id, tp0, StateOf(1, 0), TRUE, Triangle),
               DisplayObjectOf(id, tp0, StateOf(0, 0), TRUE, Quad) }
        \cup { DisplayObjectOf(id, tp0, StateOf(0, 0), FALSE, Triangle) :
                    b \in IF onPut = "default" THEN {} ELSE {FALSE} }
        \cup IF textureIncrement = 0
             THEN { DisplayObjectOf(id, tp0, StateOf(0, 1), TRUE, Triangle),
                    DisplayObjectOf(id, tp0, StateOf(0, 0), TRUE, Empty) }
             ELSE {}

\* The source array length of redirect i of an object.
SourceLength(targetObject, redirect) ==
    targetObject.vertexCount * redirect.properSize

(***************************************************************************)
(* GeometryPacker                                                          *)
(***************************************************************************)
\* A JavaScript number that need not be whole.  The cursors of the packer
\* function are quotients and products by element sizes (1, 2 or 4), so
\* such a number is n / d with d a power of two, kept in lowest terms.
RECURSIVE Reduced(_, _)
Reduced(n, d) ==
    IF d > 1 /\ n % 2 = 0 THEN Reduced(n \div 2, d \div 2) ELSE [n |-> n, d |-> d]

Whole(n) == [n |-> n, d |-> 1]
Quotient(q, s) == Reduced(q.n, q.d * s)
Product(q, s) == Reduced(q.n * s, q.d)
Plus(q, k) == [n |-> q.n + k * q.d, d |-> q.d]

\* The constructor, with vertexSize left to its default.  indexProperty is
\* whether an index property is given; vertexCountProperty is Null when
\* none is given.  _aBuffers and _iBuffers map the keys set to buffers: an
\* attribute buffer (a ViewableBuffer) is its byte length and the elements
\* written to it, an index buffer the sequence of its 16-bit entries.
NewGeometryPacker(attributeRedirects, indexProperty, vertexCountProperty, texturePerObject) ==
    [ _targetCompositeAttributeBuffer |-> Null,
      _targetCompositeIndexBuffer |-> Null,
      _aIndex |-> Whole(0),
      _iIndex |-> 0,
      _attributeRedirects |-> attributeRedirects,
      _indexProperty |-> indexProperty,
      _vertexCountProperty |-> vertexCountProperty,
      _vertexSize |-> VertexSizeFor(attributeRedirects) + texturePerObject * 4,
      _texturePerObject |-> texturePerObject,
      _aBuffers |-> << >>,
      _iBuffers |-> << >>,
      _packerFunction |-> Null ]

\* new ViewableBuffer(byteLength): cells maps the byte offset of every
\* element written whole, and not written over since, to its width in
\* bytes and its value; every other byte is zero or what is left of an
\* element written over.
NewViewableBuffer(byteLength) == [byteLength |-> byteLength, cells |-> << >>]

\* getAttributeBuffer(size): looks the buffer up under roundedSizeIndex and
\* files a new one under roundedSize.  The buffer returned is the key of
\* the buffer in _aBuffers (the buffer is shared with the cache, and
\* written through it).
GetAttributeBuffer(p, size) ==
    LET roundedP2 == NextPow2(CeilDiv(size, 8))
        roundedSizeIndex == Log2(roundedP2)
        roundedSize == roundedP2 * 8
    IN  IF roundedSizeIndex \in DOMAIN p._aBuffers
        THEN [buffer |-> roundedSizeIndex, packer |-> p]
        ELSE [buffer |-> roundedSize,
              packer |-> [p EXCEPT !._aBuffers =
                            (roundedSize :> NewViewableBuffer(roundedSize * p._vertexSize))
                                @@ @]]

\* getIndexBuffer(size): the key of the buffer in _iBuffers (the buffer is
\* shared with the cache, and written through it).
GetIndexBuffer(p, size) ==
    LET roundedP2 == NextPow2(CeilDiv(size, 12))
        roundedSizeIndex == Log2(roundedP2)
        roundedSize == roundedP2 * 12
    IN  IF roundedSizeIndex \in DOMAIN p._iBuffers
        THEN [buffer |-> roundedSizeIndex, packer |-> p]
        ELSE [buffer |-> roundedSizeIndex,
              packer |-> [p EXCEPT !._iBuffers =
                            (roundedSizeIndex :> [i \in 1..roundedSize |-> 0]) @@ @]]

PackerReset(p, batchVertexCount, batchIndexCount) ==
    LET a == GetAttributeBuffer(p, batchVertexCount)
        p1 == [a.packer EXCEPT !._targetCompositeAttributeBuffer = Some(a.buffer)]
        i == GetIndexBuffer(p1, batchIndexCount)
        p2 == IF p._indexProperty
              THEN [i.packer EXCEPT !._targetCompositeIndexBuffer = Some(i.buffer)]
              ELSE p1
    IN  [p2 EXCEPT !._aIndex = Whole(0), !._iIndex = 0]

\* The active composite attribute buffer
CompositeAttributes(p) == p._aBuffers[Val(p._targetCompositeAttributeBuffer)]

\* The active composite index buffer
CompositeIndices(p) == p._iBuffers[Val(p._targetCompositeIndexBuffer)]

(***************************************************************************)
(* FunctionCompiler.compile.  The packer function it generates is the      *)
(* sequence of statements of the body of its per-vertex loop:              *)
(*   adjust s : adjustedAIndex = aIndex / s                                *)
(*   copy     : <type>View[adjustedAIndex++] = __buffer_i[__offset_i++]    *)
(*   scalar   : <type>View[adjustedAIndex++] = __buffer_i                  *)
(*   setA s   : aIndex = adjustedAIndex * s                                *)
(*   texK k   : float32View[adjustedAIndex++] = textureId[k]               *)
(*   texAt    : float32View[aIndex] = textureId; aIndex += 4               *)
(*   texAdj   : float32View[adjustedAIndex++] = textureId;                 *)
(*              aIndex = adjustedAIndex * 4                                *)
(***************************************************************************)
Stmt(op, view, arg) == [op |-> op, view |-> view, arg |-> arg]

\* The packing for-loop body for redirects i and later, given the
\* compile-time flag skipReverseTransformation.
RECURSIVE CompileRedirects(_, _, _)
CompileRedirects(redirects, i, skip) ==
    IF i > Len(redirects) THEN [code |-> << >>, skip |-> skip]
    ELSE LET redirect == redirects[i]
             size == SizeOf(redirect.type)
             init == IF ~skip THEN << Stmt("adjust", "", size) >> ELSE << >>
             copies == IF redirect.size # Null
                       THEN [j \in 1..Val(redirect.size) |-> Stmt("copy", redirect.type, i)]
                       ELSE << Stmt("scalar", redirect.type, i) >>
             differs == /\ i < Len(redirects)
                        /\ SizeOf(redirects[i + 1].type) # size
             back == IF differs THEN << Stmt("setA", "", size) >> ELSE << >>
             rest == CompileRedirects(redirects, i + 1, IF differs THEN skip ELSE TRUE)
         IN  [code |-> init \o copies \o back \o rest.code, skip |-> rest.skip]

\* The statements written for the texture ids.
CompileTextureIds(texturePerObject, skip) ==
    IF texturePerObject > 1
    THEN (IF ~skip THEN << Stmt("adjust", "", 4) >> ELSE << >>)
         \o [k \in 1..texturePerObject |-> Stmt("texK", "float32", k - 1)]
         \o << Stmt("setA", "", 4) >>
    ELSE IF texturePerObject = 1
    THEN IF ~skip THEN << Stmt("texAt", "float32", 0) >>
         ELSE << Stmt("texAdj", "float32", 0) >>
    ELSE << >>

Compile(p) ==
    LET redirects == p._attributeRedirects
        body == CompileRedirects(redirects, 1, FALSE)
        lastSize == SizeOf(redirects[Len(redirects)].type)
        reverse == body.skip /\ lastSize # 4
        skip == IF reverse THEN FALSE ELSE body.skip
    IN  body.code
        \o (IF reverse THEN << Stmt("setA", "", lastSize) >> ELSE << >>)
        \o CompileTextureIds(p._texturePerObject, skip)

\* What a statement stores: element offset of the source array of redirect
\* source (the property itself for a scalar redirect), or element offset of
\* textureId, whose value unit is Null when it is undefined.
SourceValue(source, offset) ==
    [kind |-> "source", source |-> source, offset |-> offset, unit |-> Null]

TextureValue(offset, unit) ==
    [kind |-> "textureId", source |-> 0, offset |-> offset, unit |-> unit]

\* The elements of a buffer, other than one at byte offset at itself, that
\* an element of width bytes at that offset overlaps (no element is wider
\* than 4 bytes).
Overlapped(cells, at, width) ==
    { y \in ((at - 3)..(at + width - 1)) \ {at} :
        y \in DOMAIN cells /\ y + cells[y].width > at }

\* The cells of a buffer after an element of width bytes is stored at byte
\* offset at: the elements it overlaps are no longer whole.
Stored(cells, at, width, value) ==
    IF Overlapped(cells, at, width) = {}
    THEN (at :> [width |-> width, value |-> value]) @@ cells
    ELSE [ x \in (DOMAIN cells \ Overlapped(cells, at, width)) \cup {at} |->
             IF x = at THEN [width |-> width, value |-> value] ELSE cells[x] ]

\* <type>View[index] = value on a ViewableBuffer, for a view of elements of
\* width bytes: a store at an index that is not whole, or past the end of
\* the view, is dropped.
ViewStore(buffer, width, index, value) ==
    IF index.d = 1 /\ index.n < buffer.byteLength \div width
    THEN [buffer EXCEPT !.cells = Stored(@, index.n * width, width, value)]
    ELSE buffer

\* One statement of the loop body, on the cursors of the running function:
\* aIndex, adjustedAIndex, the __offset_i and the composite buffer.
ExecStmt(c, stmt, textureId) ==
    CASE stmt.op = "adjust" ->
            [c EXCEPT !.adjustedAIndex = Quotient(c.aIndex, stmt.arg)]
      [] stmt.op = "copy" ->
            [c EXCEPT !.buffer = ViewStore(@, SizeOf(stmt.view), c.adjustedAIndex,
                                           SourceValue(stmt.arg, c.offsets[stmt.arg])),
                      !.adjustedAIndex = Plus(@, 1),
                      !.offsets[stmt.arg] = @ + 1]
      [] stmt.op = "scalar" ->
            [c EXCEPT !.buffer = ViewStore(@, SizeOf(stmt.view), c.adjustedAIndex,
                                           SourceValue(stmt.arg, 0)),
                      !.adjustedAIndex = Plus(@, 1)]
      [] stmt.op = "texK" ->
            [c EXCEPT !.buffer = ViewStore(@, 4, c.adjustedAIndex,
                                           TextureValue(stmt.arg, textureId[stmt.arg + 1])),
                      !.adjustedAIndex = Plus(@, 1)]
      [] stmt.op = "setA" -> [c EXCEPT !.aIndex = Product(c.adjustedAIndex, stmt.arg)]
      [] stmt.op = "texAt" ->
            [c EXCEPT !.buffer = ViewStore(@, 4, c.aIndex, TextureValue(0, textureId[1])),
                      !.aIndex = Plus(@, 4)]
      [] OTHER ->
            [c EXCEPT !.buffer = ViewStore(@, 4, c.adjustedAIndex,
                                           TextureValue(0, textureId[1])),
                      !.adjustedAIndex = Plus(@, 1),
                      !.aIndex = Product(Plus(c.adjustedAIndex, 1), 4)]

RECURSIVE ExecBody(_, _, _, _)
ExecBody(c, code, n, textureId) ==
    IF n > Len(code) THEN c
    ELSE ExecBody(ExecStmt(c, code[n], textureId), code, n + 1, textureId)

RECURSIVE ExecVertices(_, _, _, _, _)
\* The vertex loop with its test after the body.
ExecVerticesDoWhile(c, code, vertexIndex, vertexCount, textureId) ==
    IF vertexIndex >= vertexCount /\ vertexIndex > 0 THEN c
    ELSE ExecVertices(ExecBody(c, code, 1, textureId), code, vertexIndex + 1,
                      vertexCount, textureId)

ExecVertices(c, code, vertexIndex, vertexCount, textureId) ==
    IF vertexIndex >= vertexCount THEN c
    ELSE ExecVertices(ExecBody(c, code, 1, textureId), code, vertexIndex + 1,
                      vertexCount, textureId)

\* A vertex-count property is Null when not given, else a property name
\* (the objects of the model keep their vertex count in it) or a constant.
PropertyName == [isString |-> TRUE, value |-> 0]
ConstantOf(n) == [isString |-> FALSE, value |-> n]

\* resolveConstantOrProperty(targetObject, property), for a vertex count
ResolveConstantOrProperty(targetObject, property) ==
    IF property.isString THEN targetObject.vertexCount ELSE property.value

\* !property, for a vertex-count property
Falsy(property) ==
    property = Null \/ (~Val(property).isString /\ Val(property).value = 0)

\* _compileVertexCountExpression, evaluated for an object
VertexCountExpression(p, targetObject) ==
    IF Falsy(p._vertexCountProperty)
    THEN SourceLength(targetObject, p._attributeRedirects[1])
            \div Val(p._attributeRedirects[1].size)
    ELSE ResolveConstantOrProperty(targetObject, Val(p._vertexCountProperty))

\* compositeIndices[i] = v on a Uint16Array: entries are 16 bits wide and a
\* write past the end is dropped.
WriteIndex(buffer, i, v) ==
    IF i < Len(buffer) THEN [buffer EXCEPT ![i + 1] = v % 65536] ELSE buffer

\* The index loop of the packer function, from index j on.
RECURSIVE PackIndices(_, _, _, _, _)
PackIndices(buffer, iIndex, verticesBefore, indices, j) ==
    IF j >= Len(indices) THEN [buffer |-> buffer, iIndex |-> iIndex]
    ELSE PackIndices(WriteIndex(buffer, iIndex, verticesBefore + indices[j + 1]),
                     iIndex + 1, verticesBefore, indices, j + 1)

\* verticesBefore + index stored in a Uint16Array: the fraction is cut off
\* (WriteIndex keeps the low 16 bits).
VerticesBefore(oldAIndex, vertexSize) == oldAIndex.n \div (oldAIndex.d * vertexSize)

\* The packer function after its vertex loop left the cursors c: it stores
\* aIndex and appends the indices of the object.
PackerFunctionTail(p, c, targetObject) ==
    IF ~p._indexProperty
    THEN [p EXCEPT !._aIndex = c.aIndex,
                   !._aBuffers[Val(p._targetCompositeAttributeBuffer)] = c.buffer]
    ELSE [p EXCEPT !._aIndex = c.aIndex,
                   !._aBuffers[Val(p._targetCompositeAttributeBuffer)] = c.buffer,
                   !._iBuffers[Val(p._targetCompositeIndexBuffer)] =
                        PackIndices(@, p._iIndex,
                                    VerticesBefore(p._aIndex, p._vertexSize),
                                    targetObject.indices, 0).buffer,
                   !._iIndex = @ + Len(targetObject.indices)]

\* The packer function, code, run with this bound to the packer.
PackerFunction(p, code, targetObject, textureId) ==
    PackerFunctionTail(
        p,
        ExecVertices([aIndex |-> p._aIndex, adjustedAIndex |-> Whole(0),
                      offsets |-> [i \in DOMAIN p._attributeRedirects |-> 0],
                      buffer |-> CompositeAttributes(p)],
                     code, 0, VertexCountExpression(p, targetObject), textureId),
        targetObject)

\* get packerFunction: compiled on first use.
WithPackerFunction(p) ==
    IF p._packerFunction = Null THEN [p EXCEPT !._packerFunction = Some(Compile(p))]
    ELSE p

\* pack(targetObject, textureId)
PackCompiled(p, targetObject, textureId) ==
    PackerFunction(p, Val(p._packerFunction), targetObject, textureId)

\* pack with a getter that compiles at every call and keeps nothing.
PackRecompiling(p, targetObject, textureId) ==
    [PackerFunction(p, Compile(p), targetObject, textureId) EXCEPT !._packerFunction = Null]

Pack(p, targetObject, textureId) ==
    PackCompiled(WithPackerFunction(p), targetObject, textureId)

(***************************************************************************)
(* BatchRenderer                                                           *)
(***************************************************************************)
\* The constructor, followed by contextChange (which sets MAX_TEXTURES and
\* builds the generator and the packer).
NewBatchRenderer(attributeRedirects, indexProperty, vertexCountProperty, texturePerObject, maxTextures) ==
    [ _attributeRedirects |-> attributeRedirects,
      _indexProperty |-> indexProperty,
      _vertexCountProperty |-> vertexCountProperty,
      _texturePerObject |-> texturePerObject,
      MAX_TEXTURES |-> maxTextures,
      _objectBuffer |-> << >>,
      _bufferedVertices |-> 0,
      _bufferedIndices |-> 0,
      _batchPool |-> << >>,
      _batchCount |-> 0 ]

\* _vertexCountFor(targetObject)
VertexCountFor(r, targetObject) ==
    IF ~Falsy(r._vertexCountProperty)
    THEN ResolveConstantOrProperty(targetObject, Val(r._vertexCountProperty))
    ELSE SourceLength(targetObject, r._attributeRedirects[1])
            \div Val(r._attributeRedirects[1].size)

\* A start that empties the object buffer and keeps the totals.
RendererStartKeepingTotals(r) == [r EXCEPT !._objectBuffer = << >>]

\* start(), on the renderer's fields
RendererStart(r) ==
    [r EXCEPT !._objectBuffer = << >>, !._bufferedVertices = 0, !._bufferedIndices = 0]

\* render(displayObject)
RendererRender(r, displayObject) ==
    [r EXCEPT !._objectBuffer = Append(@, displayObject),
              !._bufferedVertices = @ + VertexCountFor(r, displayObject),
              !._bufferedIndices = IF r._indexProperty
                                   THEN @ + Len(displayObject.indices) ELSE @]

\* _newBatch allocating a Batch for every batch of every flush.
NewBatchAlwaysAllocated(r, batchStart) ==
    [index |-> Len(r._batchPool) + 1,
     brend |-> [r EXCEPT !._batchPool = Append(@, NewBatchRecord(batchStart)),
                         !._batchCount = @ + 1]]

\* _newBatch(batchStart): the position of the batch in the pool and the
\* renderer after it.
NewBatch(r, batchStart) ==
    IF r._batchCount = Len(r._batchPool)
    THEN [index |-> r._batchCount + 1,
          brend |-> [r EXCEPT !._batchPool = Append(@, NewBatchRecord(batchStart)),
                              !._batchCount = @ + 1]]
    ELSE [index |-> r._batchCount + 1,
          brend |-> [r EXCEPT !._batchPool[r._batchCount + 1] =
                                  [BatchReset(@) EXCEPT !.geometryOffset = batchStart],
                              !._batchCount = @ + 1]]

\* A flush whose batching loop does not end grows the batch pool for ever;
\* the model cuts the loop at this batch count and records that flush did
\* not return.
BatchCap == MaxItems + 1

\* finalize(batch) on the batch nb that _newBatch returned.
FinalizeInto(f, nb) ==
    [gen |-> f.gen, brend |-> [nb.brend EXCEPT !._batchPool[nb.index] = f.batch]]

FinalizeBatch(g, nb) ==
    FinalizeInto(Finalize(g, nb.brend._batchPool[nb.index]), nb)

\* batchGenerator.finalize(this._newBatch(batchStart))
FinalizeNewBatch(g, r, batchStart) ==
    FinalizeBatch(g, NewBatch(r, batchStart))

\* A flush that generates no last batch.
LastBatchOmitted(g, r, batchStart) == [gen |-> g, brend |-> r]

\* A flush that generates a last batch whether or not objects are left.
LastBatchAlways(g, r, batchStart) == FinalizeNewBatch(g, r, batchStart)

\* "Generate the last batch, if required."
LastBatch(g, r, batchStart) ==
    IF Len(g._batchBuffer) # 0
    THEN FinalizeNewBatch(g, r, batchStart)
    ELSE [gen |-> g, brend |-> r]

\* What the batching of flush gives: the generator and the renderer after
\* it, the calls of put made per buffered object, and whether the loop was
\* cut.
Batched(last, offers, hung) ==
    [gen |-> last.gen, brend |-> last.brend, offers |-> offers, hung |-> hung]

\* The loop of flush that generates the batches, from objectIndex on, and
\* the last batch after it.
RECURSIVE BatchLoop(_, _, _, _, _)
RECURSIVE BatchStep(_, _, _, _, _)
RECURSIVE BatchSplit(_, _, _)
BatchLoop(g, r, objectIndex, batchStart, offers) ==
    IF objectIndex >= Len(r._objectBuffer)
    THEN Batched(LastBatch(g, r, batchStart), offers, FALSE)
    ELSE BatchStep(Put(g, r._objectBuffer[objectIndex + 1],
                       r._objectBuffer[objectIndex + 1].state),
                   r, objectIndex, batchStart,
                   [offers EXCEPT ![objectIndex + 1] = @ + 1])

\* The body of the loop after put returned wasPut.
BatchStep(wasPut, r, objectIndex, batchStart, offers) ==
    IF wasPut.ret
    THEN BatchLoop(wasPut.gen, r, objectIndex + 1, batchStart, offers)
    ELSE IF r._batchCount >= BatchCap
    THEN Batched([gen |-> wasPut.gen, brend |-> r], offers, TRUE)
    ELSE BatchSplit(FinalizeNewBatch(wasPut.gen, r, batchStart), objectIndex, offers)

\* The loop after a batch was finalized: batchStart = objectIndex.
BatchSplit(finalized, objectIndex, offers) ==
    BatchLoop(finalized.gen, finalized.brend, objectIndex, objectIndex, offers)

\* uidMap[texUID]: Null when the map has no such key (undefined)
Lookup(uidMap, texUID) ==
    IF texUID \in DOMAIN uidMap THEN Some(uidMap[texUID]) ELSE Null

\* The texture id(s) flush hands to pack for an object of a batch.  For a
\* texture array the test reads _tex.BaseTexture, which no texture has, so
\* the uid looked up is the texture's own.
TextureIdFor(r, batch, targetObject) ==
    LET tex == targetObject.texture
        uidMap == Val(batch.uidMap)
    IN  IF r._texturePerObject = 1
        THEN << Lookup(uidMap, Base(tex[1]).uid) >>
        ELSE [k \in 1..Len(tex) |-> Lookup(uidMap, tex[k].uid)]

\* vertexCount += resolveConstantOrProperty(targetObject,
\* this._vertexCountProperty), when no index property is used.  A count of
\* Null is the NaN that adding undefined gives.
AddVertexCount(r, vertexCount, targetObject) ==
    IF r._indexProperty \/ vertexCount = Null THEN vertexCount
    ELSE IF r._vertexCountProperty = Null THEN Null
    ELSE Some(Val(vertexCount)
              + ResolveConstantOrProperty(targetObject, Val(r._vertexCountProperty)))

\* indexCount += resolveConstantOrProperty(targetObject,
\* this._indexProperty).length, when an index property is used.
AddIndexCount(r, indexCount, targetObject) ==
    IF r._indexProperty THEN indexCount + Len(targetObject.indices) ELSE indexCount

\* The loop over the objects of batch i that packs them, from object j on.
RECURSIVE PackObjects(_, _, _, _, _, _)
RECURSIVE PackObject(_, _, _, _, _, _, _)
PackObjects(r, p, i, j, vertexCount, indexCount) ==
    IF j > Len(Val(r._batchPool[i].batchBuffer)) THEN [brend |-> r, packer |-> p]
    ELSE PackObject(r, p, i, j, Val(r._batchPool[i].batchBuffer)[j],
                    AddVertexCount(r, vertexCount, Val(r._batchPool[i].batchBuffer)[j]),
                    AddIndexCount(r, indexCount, Val(r._batchPool[i].batchBuffer)[j]))

\* The body of that loop, with the counts already added to.
PackObject(r, p, i, j, targetObject, vertexCount, indexCount) ==
    PackObjects([r EXCEPT !._batchPool[i].vertexCount = vertexCount,
                          !._batchPool[i].indexCount = Some(indexCount)],
                Pack(p, targetObject, TextureIdFor(r, r._batchPool[i], targetObject)),
                i, j + 1, vertexCount, indexCount)

\* The loop over the batches that packs their objects, from batch i on.
RECURSIVE PackBatches(_, _, _)
RECURSIVE PackNextBatch(_, _)
PackBatches(r, p, i) ==
    IF i > r._batchCount THEN [brend |-> r, packer |-> p]
    ELSE PackNextBatch(PackObjects(r, p, i, 1, Some(0), 0), i + 1)

PackNextBatch(done, i) == PackBatches(done.brend, done.packer, i)

\* batch.upload(renderer) binds the textures and sets the state through
\* its renderer argument; it throws when given none.
BatchUpload(batch, renderer) ==
    IF renderer = Null THEN [threw |-> TRUE, bound |-> << >>]
    ELSE [threw |-> FALSE, bound |-> Val(batch.textureBuffer)]

\* The draw call of batch i, after upload bound the textures bound.
DrawCall(r, i, bound) ==
    [batch |-> i, bound |-> bound, offset |-> r._batchPool[i].geometryOffset,
     count |-> IF r._indexProperty THEN r._batchPool[i].indexCount
               ELSE r._batchPool[i].vertexCount]

\* The loop of flush that draws the batches, from batch i on: upload, draw
\* and reset.  flush calls upload with no argument.
RECURSIVE DrawBatches(_, _, _)
RECURSIVE DrawBatch(_, _, _, _)
DrawBatches(r, i, draws) ==
    IF i > r._batchCount THEN [brend |-> r, draws |-> draws, threw |-> FALSE]
    ELSE DrawBatch(r, i, draws, BatchUpload(r._batchPool[i], Null))

DrawBatch(r, i, draws, up) ==
    IF up.threw THEN [brend |-> r, draws |-> draws, threw |-> TRUE]
    ELSE DrawBatches([r EXCEPT !._batchPool[i] = BatchReset(@)], i + 1,
                     Append(draws, DrawCall(r, i, up.bound)))

\* flush after its batches are drawn.
FlushDrawn(batched, packed, drawn) ==
    [gen |-> batched.gen, brend |-> drawn.brend, packer |-> packed.packer,
     offers |-> batched.offers, hung |-> FALSE, threw |-> drawn.threw,
     draws |-> drawn.draws]

\* flush after its objects are packed.
FlushPacked(batched, packed) ==
    FlushDrawn(batched, packed, DrawBatches(packed.brend, 1, << >>))

\* flush after its batching: it goes no further when the loop was cut.
FlushBatched(batched, p) ==
    IF batched.hung
    THEN [gen |-> batched.gen, brend |-> batched.brend, packer |-> p,
          offers |-> batched.offers, hung |-> TRUE, threw |-> FALSE,
          draws |-> << >>]
    ELSE FlushPacked(batched, PackBatches(batched.brend, p, 1))

\* flush(): the generator, the renderer and the packer after it, and what
\* it did.
Flush(g, r, p) ==
    FlushBatched(BatchLoop(g, [r EXCEPT !._batchCount = 0], 0, 0,
                           [n \in 1..Len(r._objectBuffer) |-> 0]),
                 PackerReset(p, r._bufferedVertices, r._bufferedIndices))

(***************************************************************************)
(* BufferPool.  A buffer is its identity and its length: the buffers the   *)
(* pool constructs are numbered from 1 in the order of construction, and   *)
(* a buffer constructed elsewhere has identity 0.  _bufferPools is the     *)
(* array of free-lists, one per size class; an element never set is Null.  *)
(***************************************************************************)
NewBufferPool == [_bufferPools |-> << >>]

BufferOf(id, length) == [id |-> id, length |-> length]

\* array.length = length, for a length greater than the present one
Lengthened(array, length) ==
    array \o [i \in 1..(length - Len(array)) |-> Null]

\* array[index] = value, which lengthens the array when index is past its
\* end
ArraySet(array, index, value) ==
    [Lengthened(array, IF Len(array) <= index THEN index + 1 ELSE Len(array))
        EXCEPT ![index + 1] = value]

\* !array[index]
Unset(array, index) == index >= Len(array) \/ array[index + 1] = Null

\* An allocateBuffer that returns the last buffer of the free-list and
\* leaves it there.
PeekOrConstruct(bufferPools, roundedSizeIndex, roundedSize, id) ==
    IF Val(bufferPools[roundedSizeIndex + 1]) # << >>
    THEN [buffer |-> Val(bufferPools[roundedSizeIndex + 1])
                        [Len(Val(bufferPools[roundedSizeIndex + 1]))],
          constructed |-> FALSE,
          pool |-> [_bufferPools |-> bufferPools]]
    ELSE [buffer |-> BufferOf(id, roundedSize),
          constructed |-> TRUE,
          pool |-> [_bufferPools |-> bufferPools]]

\* allocateBuffer after the free-list of the size class is in place:
\* bufferPool.pop() || new bufferType(roundedSize), the buffer constructed
\* being given the identity id.
PopOrConstruct(bufferPools, roundedSizeIndex, roundedSize, id) ==
    IF Val(bufferPools[roundedSizeIndex + 1]) # << >>
    THEN [buffer |-> Val(bufferPools[roundedSizeIndex + 1])
                        [Len(Val(bufferPools[roundedSizeIndex + 1]))],
          constructed |-> FALSE,
          pool |-> [_bufferPools |->
                      [bufferPools EXCEPT ![roundedSizeIndex + 1] =
                          Some(SubSeq(Val(@), 1, Len(Val(@)) - 1))]]]
    ELSE [buffer |-> BufferOf(id, roundedSize),
          constructed |-> TRUE,
          pool |-> [_bufferPools |-> bufferPools]]

\* allocateBuffer after _bufferPools is lengthened
AllocateLengthened(bufferPools, roundedSizeIndex, roundedSize, id) ==
    PopOrConstruct(IF bufferPools[roundedSizeIndex + 1] = Null
                   THEN [bufferPools EXCEPT ![roundedSizeIndex + 1] = Some(<< >>)]
                   ELSE bufferPools,
                   roundedSizeIndex, roundedSize, id)

\* An allocateBuffer that constructs a buffer of the size asked for.
AllocateBufferExactSize(bp, size, id) ==
    AllocateLengthened(
        Lengthened(bp._bufferPools,
                   IF Len(bp._bufferPools) <= Log2(NextPow2(size))
                   THEN Log2(NextPow2(size)) + 1 ELSE Len(bp._bufferPools)),
        Log2(NextPow2(size)), size, id)

\* An allocateBuffer that never looks at the free-list.
AllocateBufferNoReuse(bp, size, id) ==
    [buffer |-> BufferOf(id, NextPow2(size)), constructed |-> TRUE, pool |-> bp]

\* allocateBuffer(size): the buffer returned, whether it was constructed,
\* and the pool after the call.
AllocateBuffer(bp, size, id) ==
    AllocateLengthened(
        Lengthened(bp._bufferPools,
                   IF Len(bp._bufferPools) <= Log2(NextPow2(size))
                   THEN Log2(NextPow2(size)) + 1 ELSE Len(bp._bufferPools)),
        Log2(NextPow2(size)), NextPow2(size), id)

\* releaseBuffer after the free-list of the size class is in place
PushBuffer(bufferPools, roundedSizeIndex, buffer) ==
    [_bufferPools |-> [bufferPools EXCEPT ![roundedSizeIndex + 1] =
                          Some(Append(Val(@), buffer))]]

\* releaseBuffer(buffer): the pool after the call.
ReleaseBuffer(bp, buffer) ==
    PushBuffer(IF Unset(bp._bufferPools, Log2(NextPow2(buffer.length)))
               THEN ArraySet(bp._bufferPools, Log2(NextPow2(buffer.length)), Some(<< >>))
               ELSE bp._bufferPools,
               Log2(NextPow2(buffer.length)), buffer)

(***************************************************************************)
(* A generator used on its own: any sequence of put and finalize calls.    *)
(***************************************************************************)
GeneratorConfigs ==
    { NewBatchGenerator(k, l, r, "default") :
        k \in 0..2, l \in 1..MaxTextureLimit, r \in BOOLEAN }
    \cup { NewBatchGenerator(1, MaxTextureLimit, TRUE, "override") }

NoCall == [op |-> "new", n |-> 0, pre |-> Null, targetObject |-> Null,
           ret |-> FALSE, batch |-> Null]

\* rendered counts the render calls made; flushed tells that the last call
\* ran flush; hung, threw, offers and draws are of the last flush run.
NoRun == [rendered |-> 0, flushed |-> FALSE, hung |-> FALSE,
          threw |-> FALSE, offers |-> << >>, draws |-> << >>]

\* The attribute set of the renderers of the model: one float32 attribute
\* of two elements per vertex.
Vertices2 == << AttributeRedirectOf("vertices", "float32", Some(2)) >>

NoRenderer == NewBatchRenderer(Vertices2, TRUE, Null, 0, 1)
NoPacker == NewGeometryPacker(Vertices2, TRUE, Null, 0)

InitGen ==
    /\ gen \in GeneratorConfigs
    /\ call = NoCall
    /\ brend = NoRenderer
    /\ packer = NoPacker
    /\ run = NoRun
    /\ pool = NewBufferPool

GenPut(targetObject) ==
    /\ call.n < MaxPuts
    /\ LET r == Put(gen, targetObject, targetObject.state)
       IN  /\ gen' = r.gen
           /\ call' = [op |-> "put", n |-> call.n + 1, pre |-> Some(gen),
                       targetObject |-> Some(targetObject), ret |-> r.ret,
                       batch |-> Null]
    /\ UNCHANGED << brend, packer, run, pool >>

GenFinalize ==
    /\ LET r == Finalize(gen, NewBatchRecord(0))
       IN  /\ gen' = r.gen
           /\ call' = [op |-> "finalize", n |-> call.n, pre |-> Some(gen),
                       targetObject |-> Null, ret |-> FALSE,
                       batch |-> Some(r.batch)]
    /\ UNCHANGED << brend, packer, run, pool >>

NextGen ==
    \/ \E o \in DisplayObjects(call.n + 1, gen._textureIncrement, gen.onPut) :
          GenPut(o)
    \/ GenFinalize

vars == << gen, call, brend, packer, run, pool >>

SpecGen == InitGen /\ [][NextGen]_vars

(***************************************************************************)
(* The renderer: any sequence of start, render, flush and stop calls.      *)
(***************************************************************************)
\* The renderers explored: texturePerObject, MAX_TEXTURES (the least and
\* the greatest budget; one budget where no textures are used) and the
\* generator's onPut; all use an index property and no vertex-count
\* property.
RendererConfigs ==
    { << k, l, "default" >> : k \in 1..2, l \in {1, MaxTextureLimit} }
    \cup { << 0, MaxTextureLimit, "default" >> }
    \cup { << 1, MaxTextureLimit, "override" >> }

Init ==
    /\ \E c \in RendererConfigs :
          /\ brend = NewBatchRenderer(Vertices2, TRUE, Null, c[1], c[2])
          /\ gen = NewBatchGenerator(c[1], c[2], TRUE, c[3])
          /\ packer = NewGeometryPacker(Vertices2, TRUE, Null, c[1])
    /\ call = NoCall
    /\ run = NoRun
    /\ pool = NewBufferPool

Start ==
    /\ ~run.hung
    /\ brend' = RendererStart(brend)
    /\ run' = [run EXCEPT !.flushed = FALSE]
    /\ UNCHANGED << gen, call, packer, pool >>

Render(displayObject) ==
    /\ ~run.hung
    /\ run.rendered < MaxItems
    /\ brend' = RendererRender(brend, displayObject)
    /\ run' = [run EXCEPT !.flushed = FALSE, !.rendered = @ + 1]
    /\ UNCHANGED << gen, call, packer, pool >>

\* The variables after a flush that gave f.
Flushed(f) ==
    /\ gen' = f.gen
    /\ brend' = f.brend
    /\ packer' = f.packer
    /\ run' = [rendered |-> run.rendered, flushed |-> TRUE,
               hung |-> f.hung, threw |-> f.threw, offers |-> f.offers,
               draws |-> f.draws]
    /\ UNCHANGED << call, pool >>

\* flush(), given what it computes from the present state
FlushCall(f) == Flushed(f)

\* The test of stop(): it flushes when _bufferedVertices is not zero.
StopFlushes(r) == r._bufferedVertices # 0

\* stop(), given what a flush computes from the present state
Stop(f) ==
    IF StopFlushes(brend)
    THEN Flushed(f)
    ELSE /\ run' = [run EXCEPT !.flushed = FALSE]
         /\ UNCHANGED << gen, call, brend, packer, pool >>

\* A flush or a stop: both run the same flush, computed once here.
Next ==
    \/ Start
    \/ \E o \in RenderedObjects(run.rendered + 1, brend._texturePerObject, gen.onPut) :
          Render(o)
    \/ /\ ~run.hung
       /\ \E f \in { Flush(gen, brend, packer) } : FlushCall(f) \/ Stop(f)

Spec == Init /\ [][Next]_vars

(***************************************************************************)
(* A packer used on its own: any sequence of reset and pack calls in which *)
(* the objects packed after a reset have no more vertices and indices than *)
(* the reset was told of.                                                  *)
(***************************************************************************)
\* Most pack calls in one behaviour of a packer used on its own.
MaxPacks == 2

Position2 == AttributeRedirectOf("position", "float32", Some(2))
Uv2 == AttributeRedirectOf("uvs", "float32", Some(2))
Color4 == AttributeRedirectOf("color", "uint8", Some(4))
Alpha == AttributeRedirectOf("alpha", "float32", Null)

\* The attribute sets of the packers: one float32 attribute; two of them;
\* two followed by four bytes; one followed by four bytes; one followed by
\* a scalar.
PackLayouts ==
    { << Position2 >>,
      << Position2, Uv2 >>,
      << Position2, Uv2, Color4 >>,
      << Position2, Color4 >>,
      << Position2, Alpha >> }

\* The packers: every attribute set with 0, 1 and 2 textures per object,
\* an index property and no vertex-count property; and the first attribute
\* set without textures, with each kind of vertex-count property, with and
\* without an index property.
PackerConfigs ==
    { NewGeometryPacker(l, TRUE, Null, k) : l \in PackLayouts, k \in 0..2 }
    \cup { NewGeometryPacker(<< Position2 >>, ip, Some(v), 0) :
             ip \in BOOLEAN, v \in {PropertyName, ConstantOf(0), ConstantOf(2)} }

\* The totals reset is called with: those of an empty flush, of a small
\* flush and of a flush of more than a thousand vertices.
ResetTotals == { << 0, 0 >>, << 6, 6 >>, << 1025, 13 >> }

Segment == [vertexCount |-> 2, indices |-> << 0, 1 >>]

\* The objects packed: without vertices, with two and with three.
PackedObjects(id) ==
    { DisplayObjectOf(id, << >>, StateOf(0, 0), TRUE, g) :
        g \in {Empty, Segment, Triangle} }

\* The texture ids flush can hand to pack: one unit per texture of the
\* object.
TextureIds(texturePerObject) ==
    CASE texturePerObject = 0 -> { << >> }
      [] texturePerObject = 1 -> { << Some(u) >> : u \in 0..1 }
      [] OTHER -> { << Some(0), Some(1) >>, << Some(1), Some(1) >> }

\* The last call on the packer: n counts the pack calls made and resets
\* the reset calls, pre is the
\* packer before the call, batchVertexCount and batchIndexCount are what
\* the last reset was told, verticesBefore and indicesBefore the vertices
\* and indices packed between that reset and the call, vertices and
\* indices those packed since that reset.
NoPackCall ==
    [op |-> "new", n |-> 0, resets |-> 0, pre |-> Null, targetObject |-> Null,
     textureId |-> << >>, batchVertexCount |-> 0, batchIndexCount |-> 0,
     verticesBefore |-> 0, indicesBefore |-> 0, vertices |-> 0, indices |-> 0]

InitPack ==
    /\ packer \in PackerConfigs
    /\ call = NoPackCall
    /\ gen = NewBatchGenerator(0, 1, TRUE, "default")
    /\ brend = NoRenderer
    /\ run = NoRun
    /\ pool = NewBufferPool

PackReset(batchVertexCount, batchIndexCount) ==
    /\ call.resets < MaxPacks
    /\ packer' = PackerReset(packer, batchVertexCount, batchIndexCount)
    /\ call' = [NoPackCall EXCEPT !.op = "reset", !.n = call.n,
                                  !.resets = call.resets + 1,
                                  !.pre = Some(packer),
                                  !.batchVertexCount = batchVertexCount,
                                  !.batchIndexCount = batchIndexCount]
    /\ UNCHANGED << gen, brend, run, pool >>

PackCall(targetObject, textureId) ==
    /\ call.op # "new"
    /\ call.n < MaxPacks
    /\ call.vertices + VertexCountExpression(packer, targetObject)
           <= call.batchVertexCount
    /\ call.indices + Len(targetObject.indices) <= call.batchIndexCount
    /\ packer' = Pack(packer, targetObject, textureId)
    /\ call' = [call EXCEPT
                  !.op = "pack", !.n = @ + 1, !.pre = Some(packer),
                  !.targetObject = Some(targetObject),
                  !.textureId = textureId,
                  !.verticesBefore = call.vertices,
                  !.indicesBefore = call.indices,
                  !.vertices = @ + VertexCountExpression(packer, targetObject),
                  !.indices = @ + Len(targetObject.indices)]
    /\ UNCHANGED << gen, brend, run, pool >>

NextPack ==
    \/ \E t \in ResetTotals : PackReset(t[1], t[2])
    \/ \E o \in PackedObjects(call.n + 1) :
          \E textureId \in TextureIds(packer._texturePerObject) :
             PackCall(o, textureId)

SpecPack == InitPack /\ [][NextPack]_vars

(***************************************************************************)
(* The renderer with each kind of geometry properties: with and without an *)
(* index property and a vertex-count property, and without textures; any   *)
(* sequence of start, render, flush and stop calls.                        *)
(***************************************************************************)
GeometryConfigs ==
    { << TRUE, Null >>, << FALSE, Null >>, << FALSE, Some(PropertyName) >>,
      << TRUE, Some(ConstantOf(2)) >>, << FALSE, Some(ConstantOf(0)) >> }

InitTotals ==
    /\ \E c \in GeometryConfigs :
          /\ brend = NewBatchRenderer(Vertices2, c[1], c[2], 0, MaxTextureLimit)
          /\ gen = NewBatchGenerator(0, MaxTextureLimit, TRUE, "default")
          /\ packer = NewGeometryPacker(Vertices2, c[1], c[2], 0)
    /\ call = NoCall
    /\ run = NoRun
    /\ pool = NewBufferPool

SpecTotals == InitTotals /\ [][Next]_vars

(***************************************************************************)
(* A buffer pool used on its own: any sequence of allocateBuffer and       *)
(* releaseBuffer calls.  A buffer released is one the pool handed out and  *)
(* has not got back, or one it has got back already (released again), or   *)
(* one constructed elsewhere.                                              *)
(***************************************************************************)
\* Most calls in one behaviour of a pool used on its own.
MaxPoolCalls == 4

\* The sizes asked of allocateBuffer.
PoolSizes == {0, 1, 2, 3, 50, 64}

\* The lengths of the buffers constructed elsewhere.
ForeignLengths == {3, 50}

\* The size class of a buffer: the index of the free-list releaseBuffer
\* puts it in.
SizeClass(buffer) == Log2(NextPow2(buffer.length))

SizeClasses == 0..6

\* The buffers in the free-lists of a pool.
FreeBuffers(bp) ==
    UNION { { Val(bp._bufferPools[i])[j] : j \in DOMAIN Val(bp._bufferPools[i]) } :
              i \in { k \in DOMAIN bp._bufferPools : bp._bufferPools[k] # Null } }

\* The last call on the pool and the history of the calls: n counts the
\* calls, pre is the pool before the last call, size and buffer are the
\* argument and the buffer returned or released, fresh tells that the call
\* constructed the buffer, prev is the op and the buffer of the call before
\* it; allocated are the buffers handed out and not got back, constructed
\* and peak count per size class the buffers constructed and the most
\* buffers that were handed out at one time, and foreign and again tell
\* that a buffer constructed elsewhere, or one the pool held already, was
\* released.
NoPoolCall ==
    [op |-> "new", n |-> 0, pre |-> Null, size |-> 0, buffer |-> Null,
     fresh |-> FALSE, prev |-> [op |-> "new", buffer |-> Null],
     allocated |-> {}, constructed |-> [i \in SizeClasses |-> 0],
     peak |-> [i \in SizeClasses |-> 0], foreign |-> FALSE, again |-> FALSE]

InitPool ==
    /\ pool = NewBufferPool
    /\ call = NoPoolCall
    /\ gen = NewBatchGenerator(0, 1, TRUE, "default")
    /\ brend = NoRenderer
    /\ packer = NoPacker
    /\ run = NoRun

Total(counts) == counts[0] + counts[1] + counts[2] + counts[3]
                    + counts[4] + counts[5] + counts[6]

\* The buffers of a size class among those handed out.
AllocatedIn(allocated, i) == Cardinality({ b \in allocated : SizeClass(b) = i })

\* The history after allocateBuffer(size) gave r.
Allocated(r, size) ==
    [call EXCEPT
        !.op = "allocate", !.n = @ + 1, !.pre = Some(pool), !.size = size,
        !.buffer = Some(r.buffer), !.fresh = r.constructed,
        !.prev = [op |-> call.op, buffer |-> call.buffer],
        !.allocated = @ \cup {r.buffer},
        !.constructed[SizeClass(r.buffer)] = IF r.constructed THEN @ + 1 ELSE @,
        !.peak[SizeClass(r.buffer)] =
            IF AllocatedIn(call.allocated \cup {r.buffer}, SizeClass(r.buffer)) > @
            THEN AllocatedIn(call.allocated \cup {r.buffer}, SizeClass(r.buffer))
            ELSE @]

PoolAllocated(r, size) ==
    /\ pool' = r.pool
    /\ call' = Allocated(r, size)

PoolAllocate(size) ==
    /\ call.n < MaxPoolCalls
    /\ PoolAllocated(AllocateBuffer(pool, size, Total(call.constructed) + 1), size)
    /\ UNCHANGED << gen, brend, packer, run >>

\* The history after releaseBuffer(buffer).
Released(buffer) ==
    [call EXCEPT
        !.op = "release", !.n = @ + 1, !.pre = Some(pool), !.size = 0,
        !.buffer = Some(buffer), !.fresh = FALSE,
        !.prev = [op |-> call.op, buffer |-> call.buffer],
        !.allocated = @ \ {buffer},
        !.foreign = @ \/ buffer.id = 0,
        !.again = @ \/ (buffer.id # 0 /\ buffer \notin call.allocated)]

PoolRelease(buffer) ==
    /\ call.n < MaxPoolCalls
    /\ pool' = ReleaseBuffer(pool, buffer)
    /\ call' = Released(buffer)
    /\ UNCHANGED << gen, brend, packer, run >>

NextPool ==
    \/ \E size \in PoolSizes : PoolAllocate(size)
    \/ \E b \in call.allocated : PoolRelease(b)
    \/ \E b \in { f \in FreeBuffers(pool) : f.id # 0 } : PoolRelease(b)
    \/ \E length \in ForeignLengths : PoolRelease(BufferOf(0, length))

SpecPool == InitPool /\ [][NextPool]_vars

(***************************************************************************)
(* The arrays and maps of a generator as objects.  The generator holds its *)
(* member list, its texture list and its uid map by reference, and         *)
(* finalize hands these references to the batch.  An object is identified  *)
(* by the order of its allocation; the contents of the objects the         *)
(* generator holds are the fields of gen, and an object it holds no longer *)
(* is out of its reach.  Any sequence of put and finalize calls.           *)
(***************************************************************************)
\* Most batches finalized in one behaviour of such a generator.
MaxBatches == 2

\* The objects the constructor allocates: _batchBuffer = [],
\* _textureIndexedBuffer = [] and _textureIndexMap = {}.
NewGeneratorObjects ==
    [_batchBuffer |-> 1, _textureIndexedBuffer |-> 2, _textureIndexMap |-> 3]

\* The references finalize stores in the batch.
HandedOver(held) ==
    [batchBuffer |-> held._batchBuffer,
     textureBuffer |-> held._textureIndexedBuffer,
     uidMap |-> held._textureIndexMap]

\* A finalize that empties the objects the generator holds and keeps them.
FinalizeObjectsInPlace(held, allocated) == held

\* The objects the generator holds after finalize, allocated being the
\* number of objects allocated before it: this._batchBuffer = [],
\* this._textureIndexMap = {} and this._textureIndexedBuffer = [].
FinalizeObjects(held, allocated) ==
    [_batchBuffer |-> allocated + 1, _textureIndexMap |-> allocated + 2,
     _textureIndexedBuffer |-> allocated + 3]

\* The last call, the objects the generator holds, the number of objects
\* allocated, and the batches finalized: the references each was handed
\* and the batch as finalize filled it.
NoObjectCall ==
    [op |-> "new", n |-> 0, held |-> NewGeneratorObjects, allocated |-> 3,
     batches |-> << >>]

InitObjects ==
    /\ \E k \in 1..2 : gen = NewBatchGenerator(k, MaxTextureLimit, TRUE, "default")
    /\ call = NoObjectCall
    /\ brend = NoRenderer
    /\ packer = NoPacker
    /\ run = NoRun
    /\ pool = NewBufferPool

\* put mutates the objects the generator holds and allocates none.
ObjectsPut(targetObject) ==
    /\ call.n < MaxPuts
    /\ gen' = Put(gen, targetObject, targetObject.state).gen
    /\ call' = [call EXCEPT !.op = "put", !.n = @ + 1]
    /\ UNCHANGED << brend, packer, run, pool >>

ObjectsFinalize ==
    /\ Len(call.batches) < MaxBatches
    /\ gen' = Finalize(gen, NewBatchRecord(0)).gen
    /\ call' = [call EXCEPT
                  !.op = "finalize",
                  !.held = FinalizeObjects(call.held, call.allocated),
                  !.allocated = @ + 3,
                  !.batches = Append(@, [refs |-> HandedOver(call.held),
                                         batch |-> Finalize(gen, NewBatchRecord(0)).batch])]
    /\ UNCHANGED << brend, packer, run, pool >>

NextObjects ==
    \/ \E o \in RenderedObjects(call.n + 1, gen._textureIncrement, gen.onPut) :
          ObjectsPut(o)
    \/ ObjectsFinalize

SpecObjects == InitObjects /\ [][NextObjects]_vars

(***************************************************************************)
(* Properties of the generator (checked under SpecGen).                    *)
(***************************************************************************)
\* A generator as its constructor leaves it, with the configuration of g.
Fresh(g) ==
    NewBatchGenerator(g._textureIncrement, g._textureLimit,
                      g.enableTextureReduction, g.onPut)

\* The generator before the last call, and the object and batch of it.
Pre == Val(call.pre)
Target == Val(call.targetObject)
Out == Val(call.batch)

\* The base textures an object references, in order (none when the
\* generator looks at no textures).
References(g, targetObject) ==
    IF g._textureIncrement > 0 THEN BaseAll(targetObject.texture) ELSE << >>

\* The base textures the objects of a member list reference, in order.
RECURSIVE MemberReferences(_, _)
MemberReferences(g, members) ==
    IF members = << >> THEN << >>
    ELSE References(g, Head(members)) \o MemberReferences(g, Tail(members))

\* A list of textures without its repeats, in first-seen order.
RECURSIVE FirstSeen(_, _)
FirstSeen(textures, seen) ==
    IF textures = << >> THEN << >>
    ELSE IF Head(textures).uid \in seen THEN FirstSeen(Tail(textures), seen)
    ELSE << Head(textures) >>
         \o FirstSeen(Tail(textures), seen \cup {Head(textures).uid})

Uids(textures) == { textures[i].uid : i \in DOMAIN textures }

\* The texture-uid to unit map of a list of distinct textures.
UnitMap(textures) ==
    [ u \in Uids(textures) |->
        (CHOOSE i \in DOMAIN textures : textures[i].uid = u) - 1 ]

\* C6: the first put on an empty accumulator (fresh or just finalized)
\* accepts the item whatever it is: it returns true, appends the item to
\* the member list and records the state given as the state of the batch.
C6_FirstPutAccepts ==
    (call.op = "put" /\ Pre = Fresh(Pre))
        => /\ call.ret
           /\ gen._batchBuffer = << Target >>
           /\ gen._state = Some(Target.state)

\* The last call was a put of a texture array to a reducing generator that
\* the state comparison and onPut let through.
ArrayPutReachedTextures ==
    /\ call.op = "put"
    /\ Pre.enableTextureReduction
    /\ Pre._textureIncrement > 1
    /\ (Pre._state = Null \/ Val(Pre._state).data = Target.state.data)
    /\ OnPut(Pre, Target)

\* C7: a texture array is accepted exactly when the distinct textures of
\* the group that the batch does not hold yet, plus the distinct textures
\* it holds, are at most L; a rejection registers none of them and an
\* acceptance registers each of the new ones once.
C7_AtomicGroupAdmission ==
    ArrayPutReachedTextures
        => LET held == DOMAIN Pre._textureBuffer
               netNew == Uids(References(Pre, Target)) \ held
           IN  /\ call.ret <=>
                    Cardinality(netNew) + Cardinality(held) <= Pre._textureLimit
               /\ ~call.ret =>
                    /\ gen._textureIndexedBuffer = Pre._textureIndexedBuffer
                    /\ gen._textureBuffer = Pre._textureBuffer
               /\ call.ret =>
                    /\ DOMAIN gen._textureBuffer = held \cup netNew
                    /\ Len(gen._textureIndexedBuffer)
                         = Len(Pre._textureIndexedBuffer) + Cardinality(netNew)

\* C8: without texture reduction every texture reference of an accepted
\* item takes one unit, put rejects an item that would take the units of
\* the open batch above L, and no finalized batch carries more than L
\* textures.
C8_NoReductionBudget ==
    /\ (call.op = "put" /\ ~Pre.enableTextureReduction /\ call.ret)
         => /\ gen._textureIndexedBuffer
                 = Pre._textureIndexedBuffer \o References(Pre, Target)
            /\ Len(gen._textureIndexedBuffer) <= Pre._textureLimit
    /\ (call.op = "finalize" /\ ~Pre.enableTextureReduction)
         => Len(Val(Out.textureBuffer)) <= Pre._textureLimit

\* What finalize hands over apart from the texture-uid to unit map, and the
\* generator it leaves.
FinalizeTransfers(textureList) ==
    /\ Out.batchBuffer = Some(Pre._batchBuffer)
    /\ Out.state = Pre._state
    /\ Out.textureBuffer = Some(textureList)
    /\ gen = Fresh(Pre)

\* C9 (as stated): finalize hands the batch the member list, the distinct
\* textures of the members in first-seen order, the texture-uid to unit map
\* and the recorded state, and leaves the generator as a fresh one.
C9_FinalizeAsStated ==
    call.op = "finalize"
        => LET distinct == FirstSeen(MemberReferences(Pre, Pre._batchBuffer), {})
           IN  /\ FinalizeTransfers(distinct)
               /\ Out.uidMap = Some(UnitMap(distinct))

\* C9 (amended): finalize hands the batch the member list and the recorded
\* state and leaves the generator as a fresh one; with texture reduction
\* it hands over the distinct textures of the members in first-seen order
\* and their texture-uid to unit map, without it every texture reference
\* of the members in order and no map.
C9_Finalize ==
    call.op = "finalize"
        => LET references == MemberReferences(Pre, Pre._batchBuffer)
               distinct == FirstSeen(references, {})
           IN  IF Pre.enableTextureReduction
               THEN /\ FinalizeTransfers(distinct)
                    /\ Out.uidMap = Some(UnitMap(distinct))
               ELSE /\ FinalizeTransfers(references)
                    /\ Out.uidMap = Null

\* C9 happens: a reducing generator finalized a batch of several members
\* that share a texture and use two.
C9_Witness ==
    /\ call.op = "finalize"
    /\ Pre.enableTextureReduction
    /\ Len(Pre._batchBuffer) >= 2
    /\ Len(Val(Out.textureBuffer)) = 2
    /\ Len(MemberReferences(Pre, Pre._batchBuffer)) > 2

(***************************************************************************)
(* Properties of the renderer (checked under Spec).                        *)
(***************************************************************************)
\* The batches the last flush produced, in batch order.
Batches == SubSeq(brend._batchPool, 1, brend._batchCount)

\* The member lists of a sequence of batches, concatenated.
RECURSIVE ConcatMembers(_)
ConcatMembers(batches) ==
    IF batches = << >> THEN << >>
    ELSE Val(Head(batches).batchBuffer) \o ConcatMembers(Tail(batches))

\* The last call ran flush and its batching loop came to its end.
FlushFormedBatches == run.flushed /\ ~run.hung

\* The distinct base textures the members of a batch reference.
DistinctOf(batch) == Uids(MemberReferences(gen, Val(batch.batchBuffer)))

\* C1: when flush has formed its batches, their member lists concatenated
\* in batch order are the object buffer: every item is in exactly one
\* batch, once, in submission order.
C1_OrderPreservation ==
    FlushFormedBatches => ConcatMembers(Batches) = brend._objectBuffer

\* C1 happens: a flush formed several batches out of a full buffer.
C1_Witness ==
    /\ FlushFormedBatches
    /\ brend._batchCount >= 2
    /\ Len(brend._objectBuffer) = MaxItems

\* C2: with the default onPut and items that reference no more textures
\* than L, the batching loop of flush ends with every item accepted, and
\* offers each item to put once or twice.
C2_LinearPass ==
    (/\ run.flushed
     /\ gen.onPut = "default"
     /\ brend._texturePerObject <= brend.MAX_TEXTURES)
        => /\ ~run.hung
           /\ ConcatMembers(Batches) = brend._objectBuffer
           /\ \A i \in DOMAIN run.offers : run.offers[i] \in {1, 2}

\* C2 happens: a flush of a full buffer that offered some item twice and
\* another once.
C2_Witness ==
    /\ run.flushed
    /\ gen.onPut = "default"
    /\ brend._texturePerObject <= brend.MAX_TEXTURES
    /\ Len(brend._objectBuffer) = MaxItems
    /\ \E i, j \in DOMAIN run.offers : run.offers[i] = 2 /\ run.offers[j] = 1

\* C3: every batch flush produces has a texture list no longer than
\* MAX_TEXTURES, and its members reference no more distinct base textures
\* than that.
C3_TextureBudget ==
    run.flushed
        => \A i \in 1..brend._batchCount :
              /\ Len(Val(Batches[i].textureBuffer)) <= brend.MAX_TEXTURES
              /\ Cardinality(DistinctOf(Batches[i])) <= brend.MAX_TEXTURES

\* C3 happens: flush closed a batch of texture arrays that fills the budget
\* with an item reusing a texture, and opened another.
C3_Witness ==
    /\ FlushFormedBatches
    /\ brend._texturePerObject = 2
    /\ brend._batchCount >= 2
    /\ Len(Val(Batches[1].textureBuffer)) = brend.MAX_TEXTURES
    /\ Len(MemberReferences(gen, Val(Batches[1].batchBuffer))) > brend.MAX_TEXTURES

\* C4: every member of a batch was submitted with the state stored on the
\* batch.
C4_StateHomogeneity ==
    run.flushed
        => \A i \in 1..brend._batchCount :
              \A j \in DOMAIN Val(Batches[i].batchBuffer) :
                 Val(Batches[i].batchBuffer)[j].state = Val(Batches[i].state)

\* C5: a batch ends only where admission fails: the first member of the
\* next batch has another state, or its new distinct textures do not fit
\* the budget with those of the batch, or onPut rejects it.
C5_MaximalRuns ==
    FlushFormedBatches
        => \A i \in 1..(brend._batchCount - 1) :
              LET first == Val(Batches[i + 1].batchBuffer)[1]
                  held == DistinctOf(Batches[i])
                  netNew == Uids(References(gen, first)) \ held
              IN  \/ first.state # Val(Batches[i].state)
                  \/ Cardinality(netNew) + Cardinality(held) > brend.MAX_TEXTURES
                  \/ ~OnPut(gen, first)

\* The index values re-based: each item's indices plus the vertices of the
\* items before it.
RECURSIVE Rebased(_, _)
Rebased(items, verticesBefore) ==
    IF items = << >> THEN << >>
    ELSE [j \in DOMAIN Head(items).indices |-> verticesBefore + Head(items).indices[j]]
         \o Rebased(Tail(items), verticesBefore + Head(items).vertexCount)

\* C10: after a flush the composite index buffer holds, item after item in
\* packing order, the item's indices plus the number of vertices packed
\* before it, and the index cursor has advanced by the index counts.
C10_IndexRebasing ==
    FlushFormedBatches
        => LET expected == Rebased(ConcatMembers(Batches), 0)
           IN  /\ packer._iIndex = Len(expected)
               /\ SubSeq(CompositeIndices(packer), 1, Len(expected)) = expected

(***************************************************************************)
(* Properties of the packer (checked under SpecPack).                      *)
(***************************************************************************)
\* The element held whole at a byte offset of the active composite
\* attribute buffer (Null when there is none).
CellAt(p, at) ==
    IF at \in DOMAIN CompositeAttributes(p).cells
    THEN Some(CompositeAttributes(p).cells[at]) ELSE Null

\* The element a store of value through a view of width bytes leaves.
Cell(width, value) == Some([width |-> width, value |-> value])

\* The last call packed an object.
Packed == call.op = "pack"

\* The byte offset at which the object of the last pack call starts: the
\* vertices packed before it since the reset, times the vertex size.
ItemStart == call.verticesBefore * packer._vertexSize

\* C11: with a layout of one float32 attribute of s elements per vertex and
\* no texture id, packing an item of n vertices leaves its n * s source
\* values, in order, in the float32 elements of the composite buffer from
\* the item's start offset on.
C11_PackingRoundTrip ==
    (/\ Packed
     /\ packer._attributeRedirects = << Position2 >>
     /\ packer._texturePerObject = 0
     /\ packer._vertexCountProperty = Null)
        => \A e \in 0..(SourceLength(Target, Position2) - 1) :
              CellAt(packer, ItemStart + 4 * e) = Cell(4, SourceValue(1, e))

\* The bytes the redirects before redirect i take in a vertex.
PrefixSize(redirects, i) == VertexSizeFor(SubSeq(redirects, 1, i - 1))

\* The source element of redirect i that belongs at element e of vertex v:
\* the property itself for a scalar redirect.
ElementOf(redirect, i, v, e) ==
    IF redirect.size = Null THEN SourceValue(i, 0)
    ELSE SourceValue(i, v * redirect.properSize + e)

\* Redirect i of vertex v of the last object packed is held at its place
\* in the interleaved layout.
RedirectInPlace(p, i, v) ==
    \A e \in 0..(p._attributeRedirects[i].properSize - 1) :
       CellAt(p, ItemStart + v * p._vertexSize
                   + PrefixSize(p._attributeRedirects, i)
                   + e * SizeOf(p._attributeRedirects[i].type))
          = Cell(SizeOf(p._attributeRedirects[i].type),
                 ElementOf(p._attributeRedirects[i], i, v, e))

\* C12: after an item is packed, the data of every redirect r for every
\* vertex v of the item is at byte offset itemStart + v * vertexSize + (the
\* byte sizes of the redirects declared before r), whatever the layout.
C12_InterleavedLayout ==
    (Packed /\ packer._vertexCountProperty = Null)
        => \A v \in 0..(Target.vertexCount - 1) :
              \A i \in DOMAIN packer._attributeRedirects :
                 RedirectInPlace(packer, i, v)

\* The last call packed an object for which the packer function counts no
\* vertices and that has no indices.
PackedNothing ==
    /\ Packed
    /\ VertexCountExpression(Pre, Target) = 0
    /\ Target.indices = << >>

\* A packer without its packer function, which pack compiles when first
\* called.
Buffers(p) == [p EXCEPT !._packerFunction = Null]

\* C14: packing an item without vertices and indices changes neither the
\* composite attribute buffer, nor the composite index buffer, nor the
\* cursors _aIndex and _iIndex, nor anything else the packing of the next
\* items depends on.
C14_EmptyItem ==
    PackedNothing => Buffers(packer) = Buffers(Pre)

\* C14 happens: an item without vertices was packed after one with
\* vertices and indices, both cursors having moved.
C14_Witness ==
    /\ PackedNothing
    /\ call.verticesBefore > 0
    /\ Pre._aIndex # Whole(0)
    /\ Pre._iIndex > 0
    /\ CompositeAttributes(Pre).cells # << >>

\* The renderer whose contextChange builds a packer of the configuration
\* of p.
RendererOf(p) ==
    NewBatchRenderer(p._attributeRedirects, p._indexProperty,
                     p._vertexCountProperty, p._texturePerObject, 1)

\* The vertex count of an object under a vertex-count property: what the
\* property gives when one is configured, else the length of the source
\* array of the first redirect over the redirect's size.
ConfiguredVertexCount(vertexCountProperty, redirects, targetObject) ==
    IF vertexCountProperty # Null
    THEN IF Val(vertexCountProperty).isString THEN targetObject.vertexCount
         ELSE Val(vertexCountProperty).value
    ELSE SourceLength(targetObject, redirects[1]) \div Val(redirects[1].size)

\* C15: the packer function runs over as many vertices of an item as the
\* configured vertex-count property gives (a property of the item or a
\* constant, 0 included) and, when none is configured, as the first
\* redirect's source array holds; render adds the same number to the
\* buffered vertex total.
C15_VertexCount ==
    Packed
        => /\ call.vertices - call.verticesBefore
                = ConfiguredVertexCount(Pre._vertexCountProperty,
                                        Pre._attributeRedirects, Target)
           /\ RendererRender(RendererOf(Pre), Target)._bufferedVertices
                = call.vertices - call.verticesBefore

\* The vertices the active composite attribute buffer has room for.
AttributeCapacity(p) == CompositeAttributes(p).byteLength \div p._vertexSize

\* C16: after every reset, whatever resets came before it, the composite
\* attribute buffer has room for 8 * nextPow2(ceil(n / 8)) vertices, which
\* is at least the vertex total n given to reset, and the composite index
\* buffer for 12 * nextPow2(ceil(m / 12)) indices, at least the index total
\* m; and the cursors of the pack calls that follow stay within them.
C16_BufferCapacity ==
    call.op # "new"
        => /\ AttributeCapacity(packer)
                = 8 * NextPow2(CeilDiv(call.batchVertexCount, 8))
           /\ AttributeCapacity(packer) >= call.batchVertexCount
           /\ packer._aIndex.n
                <= packer._aIndex.d * CompositeAttributes(packer).byteLength
           /\ packer._indexProperty
                => /\ Len(CompositeIndices(packer))
                        = 12 * NextPow2(CeilDiv(call.batchIndexCount, 12))
                   /\ Len(CompositeIndices(packer)) >= call.batchIndexCount
                   /\ packer._iIndex <= Len(CompositeIndices(packer))

(***************************************************************************)
(* Properties of the buffer pool (checked under SpecPool).                 *)
(***************************************************************************)
\* The free-list of size class i of a pool (empty when it was never set).
FreeList(bp, i) ==
    IF Unset(bp._bufferPools, i) THEN << >> ELSE Val(bp._bufferPools[i + 1])

\* The pool before the last call, and the buffer the call returned or was
\* given.
PoolBefore == Val(call.pre)
PoolBuffer == Val(call.buffer)

\* The size class allocateBuffer serves a size from.
ClassOfSize(size) == Log2(NextPow2(size))

\* C17: when every buffer released so far came from the pool, the buffer
\* allocateBuffer(minSize) returns has length nextPow2(minSize), so at least
\* minSize; it is the buffer last put in the free-list of that size class
\* when the list is not empty, and a buffer constructed by the call
\* otherwise.
C17_Allocate ==
    (call.op = "allocate" /\ ~call.foreign)
        => /\ PoolBuffer.length = NextPow2(call.size)
           /\ PoolBuffer.length >= call.size
           /\ IF FreeList(PoolBefore, ClassOfSize(call.size)) # << >>
              THEN /\ ~call.fresh
                   /\ FreeList(PoolBefore, ClassOfSize(call.size))
                        = Append(FreeList(pool, ClassOfSize(call.size)), PoolBuffer)
              ELSE /\ call.fresh
                   /\ PoolBuffer.id = Total(call.constructed)
                   /\ FreeList(pool, ClassOfSize(call.size)) = << >>

\* C17 happens: a size that is not a power of two was served from the
\* free-list, and earlier calls constructed two buffers.
C17_Witness ==
    /\ call.op = "allocate"
    /\ ~call.foreign
    /\ ~call.fresh
    /\ call.size = 50
    /\ Total(call.constructed) = 2

\* C18: an allocateBuffer(n) that follows the release of a buffer b of
\* capacity 2^k, with 2^(k-1) < n <= 2^k, returns b and constructs nothing;
\* and while every buffer released was handed out by the pool and not yet
\* got back, the buffers constructed for a size class are as many as the
\* most that were handed out at one time in that class.
C18_PoolReuse ==
    /\ (/\ call.op = "allocate"
        /\ call.prev.op = "release"
        /\ Val(call.prev.buffer).length = NextPow2(Val(call.prev.buffer).length)
        /\ 2 * call.size > Val(call.prev.buffer).length
        /\ call.size <= Val(call.prev.buffer).length)
          => /\ PoolBuffer = Val(call.prev.buffer)
             /\ ~call.fresh
    /\ (~call.foreign /\ ~call.again)
          => \A i \in SizeClasses : call.constructed[i] = call.peak[i]

\* C18 happens: a buffer of capacity 64 was released and a request for 50
\* got it back, two buffers of that class having been out at one time.
C18_Witness ==
    /\ call.op = "allocate"
    /\ call.prev.op = "release"
    /\ call.size = 50
    /\ PoolBuffer.length = 64
    /\ PoolBuffer = Val(call.prev.buffer)
    /\ ~call.foreign /\ ~call.again
    /\ call.peak[6] = 2

\* C19: every buffer in the free-list of size class i has length at least
\* 2^i, whatever the lengths of the buffers released, and allocateBuffer
\* never returns a buffer shorter than the size asked for.
C19_ReleaseByCapacity ==
    /\ \A i \in SizeClasses :
          \A j \in DOMAIN FreeList(pool, i) : FreeList(pool, i)[j].length >= 2^i
    /\ call.op = "allocate" => PoolBuffer.length >= call.size

(***************************************************************************)
(* Properties of what a flush packs (checked under Spec).                  *)
(***************************************************************************)
\* The vertices of a list of items.
RECURSIVE VerticesIn(_)
VerticesIn(items) ==
    IF items = << >> THEN 0
    ELSE Head(items).vertexCount + VerticesIn(Tail(items))

\* The vertices packed before member j of batch i.
VerticesPackedBefore(i, j) ==
    VerticesIn(ConcatMembers(SubSeq(Batches, 1, i - 1)))
        + VerticesIn(SubSeq(Val(Batches[i].batchBuffer), 1, j - 1))

\* The unit of a texture in a batch: the position of its base texture in
\* the texture list of the batch.
UnitOf(batch, texture) == UnitMap(Val(batch.textureBuffer))[Base(texture).uid]

\* Texture t of member j of batch i is held, for vertex v, after the
\* attributes of the vertex as the unit of the texture in the batch.
UnitInPlace(i, j, v, t) ==
    CellAt(packer, (VerticesPackedBefore(i, j) + v) * packer._vertexSize
                      + VertexSizeFor(packer._attributeRedirects) + 4 * (t - 1))
        = Cell(4, TextureValue(t - 1,
                     Some(UnitOf(Batches[i], Val(Batches[i].batchBuffer)[j].texture[t]))))

\* C13: after a flush, for every member of every batch, every vertex of it
\* and each of its textures, the value stored after the attributes of the
\* vertex is the unit of the texture in the batch: the entry of the batch's
\* texture-uid to unit map for its base texture, which is the position of
\* that texture in the batch's texture list.
C13_TextureUnitIds ==
    FlushFormedBatches
        => \A i \in 1..brend._batchCount :
              \A j \in DOMAIN Val(Batches[i].batchBuffer) :
                 \A v \in 0..(Val(Batches[i].batchBuffer)[j].vertexCount - 1) :
                    \A t \in 1..brend._texturePerObject :
                       UnitInPlace(i, j, v, t)

\* No display-object is buffered.
NothingBuffered == brend._objectBuffer = << >>

\* C20: a step that runs flush while nothing is buffered obtains no batch
\* (the batch pool is as before and no batch is in use), draws nothing and
\* leaves the generator as it was, so that any number of such flushes in a
\* row do the same; and a stop while nothing is buffered runs no flush.
C20_EmptyFlush ==
    [][ NothingBuffered
          => /\ run'.flushed
                  => /\ brend'._batchPool = brend._batchPool
                     /\ brend'._batchCount = 0
                     /\ run'.draws = << >>
                     /\ ~run'.hung /\ ~run'.threw
                     /\ gen' = gen
             /\ Stop(Flush(gen, brend, packer))
                  => ~run'.flushed /\ UNCHANGED << gen, brend, packer >> ]_vars

\* C20 happens: flush ran with nothing buffered in a renderer whose pool
\* holds the batches of an earlier flush.
C20_Witness ==
    /\ NothingBuffered
    /\ run.flushed
    /\ brend._batchPool # << >>

(***************************************************************************)
(* Properties of the flush cycle (checked under Spec).                     *)
(***************************************************************************)
\* What a flush run in the present state builds and draws.
FlushNow == Flush(gen, brend, packer)

\* C21: a flush consumes the buffered items: once a flush has run, the
\* items it placed in batches are no longer buffered, and a flush run next,
\* with no render in between, builds no batch and draws nothing.
C21_FlushConsumes ==
    FlushFormedBatches
        => /\ brend._objectBuffer = << >>
           /\ FlushNow.brend._batchCount = 0
           /\ FlushNow.draws = << >>

\* The items a batch of the pool references through its member list.
ItemsHeld(batch) ==
    IF batch.batchBuffer = Null THEN << >> ELSE Val(batch.batchBuffer)

\* C22: once flush has returned, neither the object buffer of the
\* renderer, nor the generator, nor any batch of the pool references an
\* item.
C22_NoItemOutlivesFlush ==
    (run.flushed /\ ~run.hung /\ ~run.threw)
        => /\ brend._objectBuffer = << >>
           /\ gen._batchBuffer = << >>
           /\ \A i \in DOMAIN brend._batchPool :
                 ItemsHeld(brend._batchPool[i]) = << >>

\* The count a batch is drawn with: its index count when an index property
\* is used, else its vertex count (0 when the count was never set).
DrawCount(batch) ==
    IF brend._indexProperty
    THEN IF batch.indexCount = Null THEN 0 ELSE Val(batch.indexCount)
    ELSE IF batch.vertexCount = Null THEN 0 ELSE Val(batch.vertexCount)

\* The counts of the first n batches of the last flush, added up.
RECURSIVE CountsOfFirst(_)
CountsOfFirst(n) ==
    IF n = 0 THEN 0 ELSE CountsOfFirst(n - 1) + DrawCount(Batches[n])

\* C23: when flush has composed the geometry, the geometryOffset of every
\* batch is the sum of the counts of the batches before it, so that the
\* ranges [geometryOffset, geometryOffset + count) follow one another in
\* batch order and end where the indices written in this flush end.
C23_DrawRanges ==
    FlushFormedBatches
        => /\ \A i \in 1..brend._batchCount :
                 Batches[i].geometryOffset = CountsOfFirst(i - 1)
           /\ CountsOfFirst(brend._batchCount) = brend._bufferedIndices

\* C24: when flush has formed its batches it draws each of them once, in
\* batch order, each draw after the upload that binds the textures of that
\* batch, and it comes to its end.
C24_EveryBatchDrawn ==
    FlushFormedBatches
        => /\ ~run.threw
           /\ Len(run.draws) = brend._batchCount
           /\ \A i \in DOMAIN run.draws :
                 /\ run.draws[i].batch = i
                 /\ run.draws[i].bound
                      = FirstSeen(MemberReferences(gen, ItemsHeld(Batches[i])), {})

\* C25: no flush runs in a renderer whose items reference more textures
\* than MAX_TEXTURES: such a renderer is never constructed.
C25_EagerConfigurationError ==
    run.flushed => brend._texturePerObject <= brend.MAX_TEXTURES

\* C26: flush finalizes no empty accumulator: every batch it produces has
\* at least one member, whatever the items and the onPut of the generator.
C26_NoEmptyBatch ==
    run.flushed
        => \A i \in 1..brend._batchCount : ItemsHeld(Batches[i]) # << >>

(***************************************************************************)
(* The attribute cursor of the packer (checked under SpecPack).            *)
(***************************************************************************)
\* Two numbers are equal.
SameNumber(a, b) == a.n * b.d = b.n * a.d

\* C27: packing an item of v vertices advances _aIndex by v times the
\* vertex size, which is the bytes of the redirects plus four per texture
\* of an item; the cursor is a whole multiple of the vertex size.
C27_AttributeCursor ==
    Packed
        => /\ packer._vertexSize
                = VertexSizeFor(packer._attributeRedirects)
                    + 4 * packer._texturePerObject
           /\ SameNumber(packer._aIndex,
                         Plus(Pre._aIndex,
                              (call.vertices - call.verticesBefore)
                                 * packer._vertexSize))
           /\ packer._aIndex.d = 1
           /\ packer._aIndex.n % packer._vertexSize = 0

(***************************************************************************)
(* The texture list and map of the generator (checked under SpecGen).      *)
(***************************************************************************)
\* The texture list textures and the map uidMap are those of the members:
\* the distinct base textures the members reference, in first-seen order,
\* each mapped from its uid to its position (from 0) in the list.
TexturesOfMembers(g, members, textures, uidMap) ==
    /\ Cardinality(Uids(textures)) = Len(textures)
    /\ textures = FirstSeen(MemberReferences(g, members), {})
    /\ DOMAIN uidMap = Uids(textures)
    /\ \A i \in DOMAIN textures : uidMap[textures[i].uid] = i - 1

\* C28: with texture reduction the texture list of the accumulator, after
\* every call, and that of every finalized batch, are the distinct textures
\* of its own members in first-seen order, the uid map is the inverse of
\* the list, and the texture count tracked is the length of the list.
C28_TextureMapConsistency ==
    gen.enableTextureReduction
        => /\ TexturesOfMembers(gen, gen._batchBuffer,
                                gen._textureIndexedBuffer, gen._textureIndexMap)
           /\ gen._textureBufferLength = Len(gen._textureIndexedBuffer)
           /\ DOMAIN gen._textureBuffer = Uids(gen._textureIndexedBuffer)
           /\ call.op = "finalize"
                => TexturesOfMembers(gen, Val(Out.batchBuffer),
                                     Val(Out.textureBuffer), Val(Out.uidMap))

\* C28 happens: a put registered a texture in an accumulator that then
\* holds two textures and whose members reference a texture more than once.
C28_Witness ==
    /\ gen.enableTextureReduction
    /\ call.op = "put"
    /\ call.ret
    /\ Len(gen._batchBuffer) >= 2
    /\ Len(gen._textureIndexedBuffer) = 2
    /\ Len(MemberReferences(gen, gen._batchBuffer)) > 2
    /\ gen._textureIndexMap # Pre._textureIndexMap

\* The last call was a put, to a reducing generator of one texture per
\* item, of an item that the state comparison and onPut let through and
\* whose texture the open batch holds already.
PutOfHeldTexture ==
    /\ call.op = "put"
    /\ Pre.enableTextureReduction
    /\ Pre._textureIncrement = 1
    /\ (Pre._state = Null \/ Val(Pre._state).data = Target.state.data)
    /\ OnPut(Pre, Target)
    /\ InTextureBuffer(Pre, Base(Target.texture[1]).uid)

\* C29: an item whose one texture is already in the open batch is accepted,
\* however many textures the batch holds, and only the member list grows,
\* by that item.
C29_HeldTextureTakesNoUnit ==
    PutOfHeldTexture
        => /\ call.ret
           /\ gen = [Pre EXCEPT !._batchBuffer = Append(@, Target)]

\* C29 happens: such a put on a batch that holds L textures.
C29_Witness ==
    /\ PutOfHeldTexture
    /\ Pre._textureBufferLength = Pre._textureLimit
    /\ call.ret

(***************************************************************************)
(* Finalized batches and the generator (checked under SpecObjects).        *)
(***************************************************************************)
\* What a finalized batch holds now: the contents of an object the
\* generator still holds are those of the generator's field, and those of
\* an object it holds no longer are as they were when it was handed over.
BatchNow(b) ==
    [batchBuffer |->
        IF b.refs.batchBuffer = call.held._batchBuffer
        THEN gen._batchBuffer ELSE Val(b.batch.batchBuffer),
     textureBuffer |->
        IF b.refs.textureBuffer = call.held._textureIndexedBuffer
        THEN gen._textureIndexedBuffer ELSE Val(b.batch.textureBuffer),
     uidMap |->
        IF b.refs.uidMap = call.held._textureIndexMap
        THEN gen._textureIndexMap ELSE Val(b.batch.uidMap)]

\* C30: a finalized batch shares no object with the generator: after any
\* later put or finalize its member list, its texture list and its uid map
\* are as finalize filled them.
C30_FinalizedBatchNotAliased ==
    \A i \in DOMAIN call.batches :
        /\ BatchNow(call.batches[i]).batchBuffer
              = Val(call.batches[i].batch.batchBuffer)
        /\ BatchNow(call.batches[i]).textureBuffer
              = Val(call.batches[i].batch.textureBuffer)
        /\ BatchNow(call.batches[i]).uidMap = Val(call.batches[i].batch.uidMap)
        /\ \A f \in {"batchBuffer", "textureBuffer", "uidMap"} :
              call.batches[i].refs[f]
                 \notin {call.held._batchBuffer, call.held._textureIndexedBuffer,
                         call.held._textureIndexMap}

\* C30 happens: after a batch with members and textures was finalized the
\* generator accepted an item with another texture, and finalized again.
C30_Witness ==
    /\ Len(call.batches) = 2
    /\ Val(call.batches[1].batch.batchBuffer) # << >>
    /\ Val(call.batches[2].batch.batchBuffer) # << >>
    /\ Val(call.batches[1].batch.textureBuffer)
          # Val(call.batches[2].batch.textureBuffer)
    /\ call.op = "put"
    /\ gen._batchBuffer # << >>


\* ---------------------------------------------------------------------
\* The batch pool across flushes
\* ---------------------------------------------------------------------

Max(a, b) == IF a >= b THEN a ELSE b

C32_CachedByRoundedSize ==
    call.op = "reset"
        => /\ 8 * NextPow2(CeilDiv(call.batchVertexCount, 8)) \in DOMAIN Pre._aBuffers
                => /\ packer._aBuffers = Pre._aBuffers
                   /\ CompositeAttributes(packer)
                        = Pre._aBuffers[8 * NextPow2(CeilDiv(call.batchVertexCount, 8))]
           /\ ( /\ packer._indexProperty
                /\ Log2(NextPow2(CeilDiv(call.batchIndexCount, 12))) \in DOMAIN Pre._iBuffers )
                => /\ packer._iBuffers = Pre._iBuffers
                   /\ CompositeIndices(packer)
                        = Pre._iBuffers[Log2(NextPow2(CeilDiv(call.batchIndexCount, 12)))]


\* ---------------------------------------------------------------------
\* The compiled packer function
\* ---------------------------------------------------------------------

\* C33: a packer has no packer function when constructed; a reset compiles
\* none; the first pack call compiles it; and from then on every reset and
\* every pack call leaves it as it is, each pack call running that function.
C33_CompiledOnce ==
    /\ packer._packerFunction = Null
    /\ [][ /\ call'.op = "reset" => packer'._packerFunction = packer._packerFunction
           /\ call'.op = "pack"
                => /\ packer'._packerFunction # Null
                   /\ packer._packerFunction = Null
                        => packer'._packerFunction = Some(Compile(packer))
                   /\ packer._packerFunction # Null
                        => /\ packer'._packerFunction = packer._packerFunction
                           /\ packer' = PackerFunction(packer, Val(packer._packerFunction),
                                                       Val(call'.targetObject),
                                                       call'.textureId) ]_vars

\* C33 happens: a second pack call, after a second reset, by the function
\* the first pack call compiled.
C33_Witness ==
    /\ call.op = "pack"
    /\ call.n = 2
    /\ call.resets = 2
    /\ Pre._packerFunction # Null
    /\ packer._packerFunction = Pre._packerFunction


\* ---------------------------------------------------------------------
\* stop
\* ---------------------------------------------------------------------

\* C34: whenever at least one item has been passed to render since the last
\* start, a stop called then runs a flush, also when the items buffered
\* have no vertices between them.
C34_StopFlushesBuffered ==
    brend._objectBuffer # << >> => StopFlushes(brend)


\* ---------------------------------------------------------------------
\* A rejected put
\* ---------------------------------------------------------------------

\* C35: a put that returned false left the generator as it was before the
\* call: its state, batch buffer, textures, uid map and texture count.
C35_RejectedPutHasNoEffect ==
    (call.op = "put" /\ ~call.ret) => gen = Pre


\* ---------------------------------------------------------------------
\* Buffers in use
\* ---------------------------------------------------------------------

\* C36: while every buffer released was handed out by the pool and not yet
\* got back, no buffer that is handed out is in a free-list (so that no
\* allocateBuffer can return it before it is released), no buffer is twice
\* in the free-lists, and the buffer allocateBuffer returns is one it took
\* from a free-list or one it constructed, which no one holds.
C36_NoBufferInUseHandedOut ==
    (~call.foreign /\ ~call.again)
        => /\ FreeBuffers(pool) \cap call.allocated = {}
           /\ \A i \in SizeClasses, k \in SizeClasses :
                 \A j \in DOMAIN FreeList(pool, i), l \in DOMAIN FreeList(pool, k) :
                    FreeList(pool, i)[j] = FreeList(pool, k)[l] => (i = k /\ j = l)
           /\ call.op = "allocate"
                => /\ PoolBuffer \notin FreeBuffers(pool)
                   /\ IF call.fresh
                      THEN \A b \in (call.allocated \ {PoolBuffer}) \cup FreeBuffers(PoolBefore) :
                              b.id # PoolBuffer.id
                      ELSE PoolBuffer \in FreeBuffers(PoolBefore)

\* C36 happens: allocateBuffer handed out a buffer from a free-list while
\* another buffer was in use.
C36_Witness ==
    /\ ~call.foreign /\ ~call.again
    /\ call.op = "allocate"
    /\ ~call.fresh
    /\ Cardinality(call.allocated) >= 2


\* ---------------------------------------------------------------------
\* The buffered totals
\* ---------------------------------------------------------------------

\* The vertices the renderer counts for a list of items, and the indices.
RECURSIVE VertexTotal(_)
VertexTotal(items) ==
    IF items = << >> THEN 0
    ELSE VertexCountFor(brend, Head(items)) + VertexTotal(Tail(items))

RECURSIVE IndexTotal(_)
IndexTotal(items) ==
    IF items = << >> THEN 0
    ELSE (IF brend._indexProperty THEN Len(Head(items).indices) ELSE 0)
            + IndexTotal(Tail(items))

\* The vertices the packer function writes for a list of items.
RECURSIVE VerticesWritten(_)
VerticesWritten(items) ==
    IF items = << >> THEN 0
    ELSE VertexCountExpression(packer, Head(items)) + VerticesWritten(Tail(items))

\* C37: in every state _bufferedVertices is the sum of the vertex counts
\* and _bufferedIndices the sum of the index counts (0 without an index
\* property) of the items in the object buffer; and when flush has formed
\* its batches, these totals, which it sized the composite buffers with,
\* are the vertices and indices the packer writes for their members.
C37_BufferedTotals ==
    /\ brend._bufferedVertices = VertexTotal(brend._objectBuffer)
    /\ brend._bufferedIndices = IndexTotal(brend._objectBuffer)
    /\ FlushFormedBatches
         => /\ brend._bufferedVertices = VerticesWritten(ConcatMembers(Batches))
            /\ brend._bufferedIndices = IndexTotal(ConcatMembers(Batches))

\* C37 happens: a renderer without an index property was flushed, started
\* again, and given an item after that.
C37_Witness ==
    /\ ~brend._indexProperty
    /\ brend._batchPool # << >>
    /\ ~run.flushed
    /\ Len(brend._objectBuffer) = 1
    /\ brend._bufferedVertices > 0


\* ---------------------------------------------------------------------
\* The values of the composite index buffer
\* ---------------------------------------------------------------------

\* C38: the value a pack call stores in the composite index buffer for an
\* index of the object is verticesBefore plus that index, verticesBefore
\* being the attribute cursor before the call divided by the vertex size:
\* that very number, not a part of it.
C38_IndicesStoredExactly ==
    (Packed /\ Pre._indexProperty)
        => \A j \in 1..Len(Target.indices) :
              Pre._iIndex + j <= Len(CompositeIndices(packer))
                => CompositeIndices(packer)[Pre._iIndex + j]
                        * (Pre._aIndex.d * Pre._vertexSize)
                     = Pre._aIndex.n
                        + Target.indices[j] * (Pre._aIndex.d * Pre._vertexSize)

=============================================================================
